---- MODULE Spec2Model ----
(***************************************************************************)
(* A model of the media analysis pipeline of voxscribe                     *)
(* (src/src/main/media-chunker.ts, src/src/main/whisper-service.ts).       *)
(*                                                                         *)
(* Times.  The code computes with JavaScript numbers; the only division    *)
(* of the segment algorithms is "deficit / 2" in the minimum-duration      *)
(* pass.  Every time of the model is therefore counted in half             *)
(* milliseconds (ticks): an input of m ms is the even number Ms(m), and    *)
(* half of a difference of inputs is again a whole number of ticks.  A     *)
(* time the detector reports between two whole ms is an odd number of      *)
(* ticks; the model has one only where no segment is grown.                *)
(*                                                                         *)
(* Numbers.  A JavaScript number is a binary floating-point number: a sum  *)
(* or difference is the representable number nearest to the exact result,  *)
(* ties going to the even significand.  The model keeps this rule and      *)
(* scales the width of the significand down to SignificandBits: a whole    *)
(* number of ticks below 2^SignificandBits is exact, the numbers up to     *)
(* twice that are the even ones, and so on (Num).  The times of Spec and   *)
(* SegmentSpec are all below that limit; those of RoundingSpec are not.    *)
(***************************************************************************)
EXTENDS Integers, Sequences, FiniteSets, TLC

VARIABLES
    pc,                 \* position of analyze(): the await it is suspended at
    request,            \* the MediaAnalysisRequest as the model needs it
    fileKind,           \* what fs.stat finds at request.inputPath
    durationMs,         \* result of probeDuration (ticks)
    silenceIntervals,   \* result of detectSilences
    speechSegments,     \* result of buildSpeechSegments
    constrainedSegments,\* result of enforceDurationConstraints
    chunks,             \* analyze's chunks (ids, rounded bounds)
    warnings,           \* analyze's warnings array
    previews,           \* [original, trimmed], each "null" or "preview"
    exports,            \* chunkExportsBundle.exports built so far
    chunkDir,           \* chunkExportsBundle.directoryPath ("" or "chunks")
    exportIndex,        \* loop index of renderChunkExports (1-based)
    transcriptions,     \* results of the transcription loop so far
    transcribeIndex,    \* loop index of transcribeWithWhisper (1-based)
    commands,           \* external processes started, in order
    engineCalls,        \* chunk ids passed to the engine, in order
    engineThrows,       \* ids of the chunks whose engine call threw
    failed,             \* the stages whose process or file operation failed
    created,            \* directories and files created so far
    response,           \* "none" or the MediaAnalysisResponse returned
    rejection,          \* "none" or the stage whose error analyze rejected with
    stderrLines,        \* the lines of the silence detector's stderr that match
    decodeReports,      \* the time= reports of the stderr of the full decode
    adapter,            \* the engine adapter transcribeChunkExports has called
    ended,              \* number of processes and engine calls that have ended
    isInitialized,      \* WhisperService.isInitialized of the shared service
    whisperFiles,       \* what exists under whisperPath: executable, model
    calls,              \* WhisperService.transcribe calls, one for each request
    flagWriter,         \* the request that wrote isInitialized last (0: none)
    foreignAccess,      \* requests that read or wrote it after another wrote it
    defaultOptions,     \* the module's DEFAULT_OPTIONS object
    argument,           \* the argument of a call of a pure function
    returned,           \* what the call returned
    loopSegment,        \* enforceDurationConstraints: the segment of its second loop
    loopStart,          \* enforceDurationConstraints: currentStart of that loop
    loopBounded,        \* enforceDurationConstraints: its array bounded
    loopTurn,           \* iterations of its while loop so far, modulo 2
    process,            \* NativeAudioCaptureService.process (0: null)
    isCapturing,        \* NativeAudioCaptureService.isCapturing
    outputFilePath,     \* its outputFilePath: the call that named it (0: '')
    stopFilePath,       \* its stopFilePath: the call that named it (0: '')
    processes,          \* the capturer processes spawned so far, in order
    captureCalls        \* the startCapture and stopCapture calls made so far

\* The locals of one analyze call and its history.
analyzeVars == <<pc, request, fileKind, durationMs, silenceIntervals, speechSegments,
                 constrainedSegments, chunks, warnings, previews, exports, chunkDir,
                 exportIndex, transcriptions, transcribeIndex, commands, engineCalls,
                 engineThrows, failed, created, response, rejection, stderrLines,
                 decodeReports, adapter, ended>>

\* The calls in flight on the WhisperService, and what they share.
serviceVars == <<whisperFiles, calls, flagWriter, foreignAccess>>

\* A call of one of the pure functions.
utilVars == <<defaultOptions, argument, returned>>

\* The locals of the second loop of one enforceDurationConstraints call.
loopVars == <<loopSegment, loopStart, loopBounded, loopTurn>>

\* The NativeAudioCaptureService, its processes and the calls made on it.
captureVars == <<process, isCapturing, outputFilePath, stopFilePath, processes,
                 captureCalls>>

vars == <<analyzeVars, isInitialized, serviceVars, utilVars, loopVars, captureVars>>

-----------------------------------------------------------------------------
(* Bounds of the model.                                                    *)

MaxDurationMs == 4      \* longest media, in ms
MaxSilences == 2        \* longest silence list

\* The values the options of a request are drawn from, in ms.
PaddingValues == {0, 1}
MinChunkValues == {0, 2}
MaxChunkValues == {1, 2, 3}

-----------------------------------------------------------------------------
(* Arithmetic of the code.                                                 *)

Ms(m) == 2 * m

Min2(a, b) == IF a <= b THEN a ELSE b

Max2(a, b) == IF a >= b THEN a ELSE b

\* Math.round of a number of ticks: to the nearest ms, halves upwards.
Round(t) == ((t + 1) \div 2) * 2

Interval(s, e) == [startMs |-> s, endMs |-> e]

\* The significand of a number of the model, in bits (53 in JavaScript).
SignificandBits == 5

\* The first number of ticks from which on not every whole number is a number.
ExactLimit == 2 ^ SignificandBits

RECURSIVE UnitInLastPlace(_)
\* The distance between the numbers around m >= 0.
UnitInLastPlace(m) ==
    IF m < ExactLimit THEN 1 ELSE 2 * UnitInLastPlace(m \div 2)

\* The number nearest to m >= 0, a tie going to the even significand.
NearestNumber(m) ==
    LET unit == UnitInLastPlace(m)
        significand == m \div unit
        rest == m % unit
    IN  IF 2 * rest > unit \/ (2 * rest = unit /\ significand % 2 = 1)
        THEN (significand + 1) * unit
        ELSE significand * unit

\* The result of an addition or subtraction whose exact result is x.
Num(x) ==
    IF -ExactLimit < x /\ x < ExactLimit
    THEN x
    ELSE IF x < 0 THEN -NearestNumber(-x) ELSE NearestNumber(x)

-----------------------------------------------------------------------------
(* buildSpeechSegments                                                     *)

RECURSIVE InvertSilences(_, _, _, _, _)
\* The loop over the silences and the trailing segment: `segments` before padding.
InvertSilences(silences, i, cursor, clampedDuration, segments) ==
    IF i > Len(silences)
    THEN IF cursor < clampedDuration
         THEN Append(segments, Interval(cursor, clampedDuration))
         ELSE segments
    ELSE LET start == Min2(Max2(0, silences[i].startMs), clampedDuration)
             end == Min2(Max2(0, silences[i].endMs), clampedDuration)
         IN  InvertSilences(silences, i + 1, Max2(cursor, end), clampedDuration,
                            IF start > cursor
                            THEN Append(segments, Interval(cursor, start))
                            ELSE segments)

\* A padding with the signs exchanged: it shrinks the segment.
PadSegmentInwards(segment, options, clampedDuration) ==
    LET paddedStart == Max2(0, segment.startMs + options.paddingBeforeMs)
        paddedEnd == Min2(clampedDuration, segment.endMs - options.paddingAfterMs)
    IN  Interval(Min2(paddedStart, paddedEnd), Max2(paddedStart, paddedEnd))

PadSegment(segment, options, clampedDuration) ==
    LET paddedStart == Max2(0, Num(segment.startMs - options.paddingBeforeMs))
        paddedEnd == Min2(clampedDuration, Num(segment.endMs + options.paddingAfterMs))
    IN  Interval(Min2(paddedStart, paddedEnd), Max2(paddedStart, paddedEnd))

HasLength(segment) == segment.endMs > segment.startMs

WithPadding(segments, options, clampedDuration) ==
    SelectSeq([k \in 1..Len(segments) |->
                  PadSegment(segments[k], options, clampedDuration)],
              HasLength)

\* A merge test that leaves segments that only touch apart.
PaddedOverlapOnly(candidate, current) == candidate.startMs < current.endMs

\* The merge test of the padding pass.
PaddedOverlap(candidate, current) == candidate.startMs <= current.endMs

RECURSIVE MergePadded(_, _, _, _)
MergePadded(withPadding, index, current, merged) ==
    IF index > Len(withPadding)
    THEN Append(merged, current)
    ELSE LET candidate == withPadding[index]
         IN  IF PaddedOverlap(candidate, current)
             THEN MergePadded(withPadding, index + 1,
                              [current EXCEPT !.endMs = Max2(current.endMs, candidate.endMs)],
                              merged)
             ELSE MergePadded(withPadding, index + 1, candidate,
                              Append(merged, current))

\* A walk that stops after the first silence.
SegmentsBeforeSecondSilence(duration, silences) ==
    InvertSilences(SubSeq(silences, 1, Min2(1, Len(silences))), 1, 0,
                   Max2(0, duration), <<>>)

SegmentsBeforePadding(duration, silences) ==
    InvertSilences(silences, 1, 0, Max2(0, duration), <<>>)

BuildSpeechSegments(duration, silences, options) ==
    LET clampedDuration == Max2(0, duration)
        withPadding == WithPadding(SegmentsBeforePadding(duration, silences),
                                   options, clampedDuration)
    IN  IF Len(withPadding) = 0
        THEN withPadding
        ELSE MergePadded(withPadding, 2, withPadding[1], <<>>)

-----------------------------------------------------------------------------
(* enforceDurationConstraints                                              *)

\* The minimum-duration growth of one segment with span > 0: the adjusted
\* [start, end] (lines 622-638).
GrowToMinimum(segment, options, duration) ==
    LET span == Num(segment.endMs - segment.startMs)
    IN  IF span < options.minChunkDurationMs
        THEN LET deficit == Num(options.minChunkDurationMs - span)
                 half == deficit \div 2
                 adjustedStart == Max2(0, Num(segment.startMs - half))
                 adjustedEnd == Min2(duration, Num(segment.endMs + half))
                 adjustedSpan == Num(adjustedEnd - adjustedStart)
             IN  IF adjustedSpan < options.minChunkDurationMs
                 THEN IF adjustedStart = 0
                      THEN Interval(adjustedStart,
                                    Min2(duration,
                                         Num(adjustedStart + options.minChunkDurationMs)))
                      ELSE IF adjustedEnd = duration
                           THEN Interval(Max2(0, Num(adjustedEnd - options.minChunkDurationMs)),
                                         adjustedEnd)
                           ELSE Interval(adjustedStart, adjustedEnd)
                 ELSE Interval(adjustedStart, adjustedEnd)
        ELSE segment

\* A minimum-duration pass that never merges into the previous segment.
NeverTouchesPrevious(adjusted, previous) == FALSE

\* The merge test of the minimum-duration pass (line 647).
TouchesPrevious(adjusted, previous) == adjusted.startMs <= previous.endMs

RECURSIVE NormalizeSegments(_, _, _, _, _)
\* The first loop: `normalized`.
NormalizeSegments(segments, i, normalized, options, duration) ==
    IF i > Len(segments)
    THEN normalized
    ELSE LET segment == segments[i]
             span == Num(segment.endMs - segment.startMs)
             adjusted == GrowToMinimum(segment, options, duration)
             n == Len(normalized)
         IN  IF span <= 0
             THEN NormalizeSegments(segments, i + 1, normalized, options, duration)
             ELSE IF span < options.minChunkDurationMs /\ adjusted.endMs <= adjusted.startMs
             THEN NormalizeSegments(segments, i + 1, normalized, options, duration)
             ELSE IF n > 0 /\ TouchesPrevious(adjusted, normalized[n])
             THEN NormalizeSegments(segments, i + 1,
                      [normalized EXCEPT ![n].endMs = Max2(normalized[n].endMs, adjusted.endMs)],
                      options, duration)
             ELSE NormalizeSegments(segments, i + 1,
                      Append(normalized,
                             Interval(Max2(0, Min2(adjusted.startMs, duration)),
                                      Max2(0, Min2(adjusted.endMs, duration)))),
                      options, duration)

\* The condition of the while loop of the maximum-duration pass (line 665).
ExceedsMaximum(segmentEnd, currentStart, options) ==
    Num(segmentEnd - currentStart) > options.maxChunkDurationMs

RECURSIVE SplitWindows(_, _, _, _)
\* The while loop: the windows pushed and the currentStart it ends with.
SplitWindows(currentStart, segmentEnd, options, bounded) ==
    IF ExceedsMaximum(segmentEnd, currentStart, options)
    THEN LET chunkEnd == Num(currentStart + options.maxChunkDurationMs)
         IN  SplitWindows(chunkEnd, segmentEnd, options,
                          Append(bounded, Interval(currentStart, chunkEnd)))
    ELSE [bounded |-> bounded, currentStart |-> currentStart]

\* A maximum-duration pass that keeps every remainder as a segment of its own.
NeverAbsorbsRemainder(bounded, remaining, options) == FALSE

\* A maximum-duration pass that extends the previous chunk by every remainder.
AlwaysAbsorbsRemainder(bounded, remaining, options) == Len(bounded) > 0

\* A maximum-duration pass that also absorbs a remainder of just the minimum.
AbsorbsRemainderUpToMinimum(bounded, remaining, options) ==
    Len(bounded) > 0 /\ remaining <= options.minChunkDurationMs

\* The test that extends the previous chunk by the remainder (line 672).
AbsorbsRemainder(bounded, remaining, options) ==
    Len(bounded) > 0 /\ remaining < options.minChunkDurationMs

RECURSIVE BoundSegments(_, _, _, _, _)
\* The second loop: `bounded`.
BoundSegments(normalized, i, bounded, options, duration) ==
    IF i > Len(normalized)
    THEN bounded
    ELSE LET segmentEnd == normalized[i].endMs
             split == SplitWindows(normalized[i].startMs, segmentEnd, options, bounded)
             remaining == Num(segmentEnd - split.currentStart)
             b == split.bounded
         IN  IF AbsorbsRemainder(b, remaining, options)
             THEN BoundSegments(normalized, i + 1,
                      [b EXCEPT ![Len(b)].endMs = Min2(duration, segmentEnd)],
                      options, duration)
             ELSE BoundSegments(normalized, i + 1,
                      Append(b, Interval(split.currentStart, segmentEnd)),
                      options, duration)

\* A minimum-duration pass that drops the segments shorter than the minimum.
LongEnoughSegments(segments, options, duration) ==
    SelectSeq(segments, LAMBDA s : s.endMs - s.startMs >= options.minChunkDurationMs)

NormalizedSegments(segments, options, duration) ==
    NormalizeSegments(segments, 1, <<>>, options, duration)

EnforceDurationConstraints(segments, options, duration) ==
    IF Len(segments) = 0
    THEN segments
    ELSE LET bounded == BoundSegments(NormalizedSegments(segments, options, duration),
                                      1, <<>>, options, duration)
         IN  [k \in 1..Len(bounded) |->
                 Interval(Max2(0, bounded[k].startMs),
                          Min2(duration, bounded[k].endMs))]

\* analyze, lines 256-261: the chunks, numbered in the order of the segments.
MakeChunks(segments) ==
    [index \in 1..Len(segments) |->
        [id |-> index,
         startMs |-> Round(segments[index].startMs),
         endMs |-> Round(segments[index].endMs),
         durationMs |-> Max2(0, Round(Num(segments[index].endMs - segments[index].startMs)))]]

-----------------------------------------------------------------------------
(* The inputs of the model.                                                *)

Options(before, after, minimum, maximum) ==
    [paddingBeforeMs |-> Ms(before), paddingAfterMs |-> Ms(after),
     minChunkDurationMs |-> Ms(minimum), maxChunkDurationMs |-> Ms(maximum)]

\* The normalized analysis options of the requests of the model.
OptionSet ==
    {Options(b, a, mn, mx) : b \in PaddingValues, a \in PaddingValues,
                             mn \in MinChunkValues, mx \in MaxChunkValues}

\* The silence intervals detectSilences can return for a medium of d ticks:
\* 0 <= startMs <= endMs (lines 519-533), on whole ms up to one past the end.
SilenceIntervals(d) ==
    UNION {{Interval(Ms(s), Ms(e)) : e \in s..(d \div 2 + 1)} : s \in 0..(d \div 2 + 1)}

IsSortedByStart(silences) ==
    \A k \in 1..(Len(silences) - 1) : silences[k].startMs <= silences[k + 1].startMs

\* The lists detectSilences can return (it sorts by startMs, line 536).
SilenceLists(d) ==
    UNION {{l \in [1..n -> SilenceIntervals(d)] : IsSortedByStart(l)} : n \in 0..MaxSilences}

Durations == {Ms(m) : m \in 0..MaxDurationMs}

\* The inputs of the runs of a whole request: one set of options, the longest
\* medium, and silence lists that leave no, one and two speech segments.
ProbedDurations == {Ms(MaxDurationMs)}

RequestOptions == {Options(0, 0, 1, 2)}

\* A line of the detector's stderr that detectSilences matches (lines 511, 517),
\* with its numbers already multiplied by 1000.
SilenceStart(at) == [kind |-> "silence_start", at |-> at, duration |-> 0]

SilenceEnd(at, duration) == [kind |-> "silence_end", at |-> at, duration |-> duration]

\* The detector reports nothing, one silence over the whole medium, one silence
\* inside it, one that starts between two whole ms (its times are seconds with
\* decimals, lines 511 and 517), a silence_start that no silence_end follows,
\* and that after a whole silence.
DetectorOutputs(d) ==
    {<<>>,
     <<SilenceStart(0), SilenceEnd(d, d)>>,
     <<SilenceStart(Ms(1)), SilenceEnd(Ms(2), Ms(1))>>,
     <<SilenceStart(Ms(1) + 1), SilenceEnd(Ms(2), 1)>>,
     <<SilenceStart(Ms(1))>>,
     <<SilenceStart(Ms(1)), SilenceEnd(Ms(2), Ms(1)), SilenceStart(Ms(3))>>}

\* The stderr that reports the intervals of `silences`, each with both lines.
LinesOf(silences) ==
    [k \in 1..(2 * Len(silences)) |->
        IF k % 2 = 1
        THEN SilenceStart(silences[(k + 1) \div 2].startMs)
        ELSE SilenceEnd(silences[k \div 2].endMs,
                        silences[k \div 2].endMs - silences[k \div 2].startMs)]

-----------------------------------------------------------------------------
(* analyze: one action for each await of the request, with the outcome of  *)
(* the awaited process, file operation or engine call chosen by \E.        *)

NoSpeechWarning == "Aucun segment parle detecte."
NoExportsWarning == "Transcription demandee mais aucun chunk exporte."
TrimmedPreviewWarning == "Impossible de generer la version sans silences"

\* An external process: the command and the chunk it renders (0: none).
Command(name, chunk) == [name |-> name, chunk |-> chunk]

\* A directory or file of the output: its name and the chunk it holds (0: none).
Output(name, chunk) == [name |-> name, chunk |-> chunk]

NoPreviews == [original |-> "null", trimmed |-> "null"]

\* The engines the transcription options of a request can name.
Engines == {"whisper", "vosk"}

\* normalizeTranscriptionOptions (lines 340-365): `enabled` is the request's,
\* `engine` is the literal of line 351 (and of the defaults, line 183).
NormalizeTranscriptionOptions(req) ==
    [enabled |-> req.transcriptionEnabled, engine |-> "whisper"]

\* transcribeChunkExports (lines 797-806): the adapter it calls.
TranscribeChunkExports(options) ==
    IF options.engine = "whisper"
    THEN "transcribeWithWhisper"
    ELSE "transcribeWithVosk"

\* A return statement that names the chunk directory whatever the exports.
ResponseWithDirectory(exps, dir, trs, warns, prevs) ==
    [durationMs |-> durationMs,
     chunks |-> chunks,
     previews |-> prevs,
     chunkExports |-> exps,
     chunkExportsDirPath |-> dir,
     transcriptions |-> trs,
     transcription |-> NormalizeTranscriptionOptions(request),
     warnings |-> warns]

\* analyze's return statement (lines 310-324).
Response(exps, dir, trs, warns, prevs) ==
    [durationMs |-> durationMs,
     chunks |-> chunks,
     previews |-> prevs,
     chunkExports |-> exps,
     chunkExportsDirPath |-> IF Len(exps) > 0 THEN dir ELSE "null",
     transcriptions |-> trs,
     transcription |-> NormalizeTranscriptionOptions(request),
     warnings |-> warns]

Reject(stage) ==
    /\ pc' = "rejected"
    /\ rejection' = stage
    /\ failed' = failed \cup {stage}

\* Lines 289-324 once the transcriptions are known.
Resolve(exps, dir, trs, warns, prevs) ==
    /\ pc' = "resolved"
    /\ response' = <<Response(exps, dir, trs, warns, prevs)>>

\* An ensureSourceExists without the isFile test: only ENOENT rejects.
EnsureSourceIsThere ==
    /\ pc = "ensureSourceExists"
    /\ IF fileKind # "missing"
       THEN /\ pc' = "probeFormat"
            /\ commands' = Append(commands, Command("ffprobe format", 0))
            /\ UNCHANGED <<rejection, failed>>
       ELSE /\ Reject("ensureSourceExists")
            /\ UNCHANGED commands
    /\ UNCHANGED <<decodeReports, isInitialized, stderrLines, adapter, serviceVars, utilVars, loopVars, captureVars>>
    /\ UNCHANGED ended
    /\ UNCHANGED <<engineThrows, request, fileKind, durationMs, silenceIntervals,
                   speechSegments, constrainedSegments, chunks, warnings, previews,
                   exports, chunkDir, exportIndex, transcriptions, transcribeIndex,
                   engineCalls, created, response>>

\* ensureSourceExists (lines 367-379, the first await of analyze), then
\* probeDuration starts its first command.
EnsureSourceExists ==
    /\ pc = "ensureSourceExists"
    /\ IF fileKind = "file"
       THEN /\ pc' = "probeFormat"
            /\ commands' = Append(commands, Command("ffprobe format", 0))
            /\ UNCHANGED <<rejection, failed>>
       ELSE /\ Reject("ensureSourceExists")
            /\ UNCHANGED commands
    /\ UNCHANGED <<decodeReports, isInitialized, stderrLines, adapter, serviceVars, utilVars, loopVars, captureVars>>
    /\ UNCHANGED ended
    /\ UNCHANGED <<engineThrows, request, fileKind, durationMs, silenceIntervals, speechSegments,
                   constrainedSegments, chunks, warnings, previews, exports, chunkDir,
                   exportIndex, transcriptions, transcribeIndex, engineCalls,
                   created, response>>

\* What one probing command can end with: a non-zero exit (runCommand rejects),
\* output that does not parse, a value that is not finite or not positive, or
\* a duration.
ProbeOutcomes(values) ==
    {[kind |-> k, value |-> 0] : k \in {"exit", "unparsable", "invalid"}}
        \cup {[kind |-> "value", value |-> d] : d \in values \ {0}}

\* The times the decode reports as it goes: the start, an early time, and the
\* durations of the media.
ProgressTimes(values) == {0, Ms(1)} \cup values

\* The time= reports of a decode's stderr, in its order: none, one, or two, the
\* later no earlier than the first.
ProgressReports(values) ==
    {<<>>}
        \cup {<<t>> : t \in ProgressTimes(values)}
        \cup {r \in ProgressTimes(values) \X ProgressTimes(values) : r[2] >= r[1]}

\* The decode exits non-zero (runCommand rejects), or its stderr is read.
DecodeOutcomes(values) ==
    {[kind |-> "exit", reports |-> <<>>]}
        \cup {[kind |-> "output", reports |-> r] : r \in ProgressReports(values)}

\* stderr.match(/time=.../) (line 454): the pattern has no g flag, the match is
\* the first report of the output; <<>> is null.
TimeMatch(reports) ==
    IF Len(reports) = 0 THEN <<>> ELSE <<reports[1]>>

\* probeDuration has returned d: detectSilences starts its command.
ProbeReturns(d) ==
    /\ durationMs' = d
    /\ pc' = "detectSilences"
    /\ commands' = Append(commands, Command("ffmpeg silencedetect", 0))
    /\ UNCHANGED rejection

\* probeDuration, strategy 1 (lines 397-420): runCommand is awaited outside the try.
ProbeFormat ==
    /\ pc = "probeFormat"
    /\ \E o \in ProbeOutcomes(ProbedDurations) :
          CASE o.kind = "exit" ->
                   /\ Reject("probeFormat")
                   /\ UNCHANGED <<durationMs, commands>>
            [] o.kind = "value" -> ProbeReturns(o.value) /\ UNCHANGED failed
            [] OTHER ->
                   /\ pc' = "probeStream"
                   /\ commands' = Append(commands, Command("ffprobe stream", 0))
                   /\ failed' = failed \cup {"probeFormat"}
                   /\ UNCHANGED <<durationMs, rejection>>
    /\ UNCHANGED <<decodeReports, isInitialized, stderrLines, adapter, serviceVars, utilVars, loopVars, captureVars>>
    /\ ended' = ended + 1
    /\ UNCHANGED <<engineThrows, request, fileKind, silenceIntervals, speechSegments,
                   constrainedSegments, chunks, warnings, previews, exports, chunkDir,
                   exportIndex, transcriptions, transcribeIndex, engineCalls,
                   created, response>>

\* probeDuration, strategy 2 (lines 423-446): the whole strategy is inside a try.
ProbeStream ==
    /\ pc = "probeStream"
    /\ \E o \in ProbeOutcomes(ProbedDurations) :
          IF o.kind = "value"
          THEN ProbeReturns(o.value) /\ UNCHANGED failed
          ELSE /\ pc' = "probeDecode"
               /\ commands' = Append(commands, Command("ffmpeg decode", 0))
               /\ failed' = failed \cup {"probeStream"}
               /\ UNCHANGED <<durationMs, rejection>>
    /\ UNCHANGED <<decodeReports, isInitialized, stderrLines, adapter, serviceVars, utilVars, loopVars, captureVars>>
    /\ ended' = ended + 1
    /\ UNCHANGED <<engineThrows, request, fileKind, silenceIntervals, speechSegments,
                   constrainedSegments, chunks, warnings, previews, exports, chunkDir,
                   exportIndex, transcriptions, transcribeIndex, engineCalls,
                   created, response>>

\* probeDuration, strategy 3 (lines 448-470): a matched report is returned as it
\* is, everything else returns 0.
ProbeDecode ==
    /\ pc = "probeDecode"
    /\ \E o \in DecodeOutcomes(ProbedDurations) :
          LET timeMatch == TimeMatch(o.reports)
          IN  /\ decodeReports' = o.reports
              /\ ProbeReturns(IF timeMatch # <<>> THEN timeMatch[1] ELSE 0)
              /\ failed' = IF timeMatch # <<>> THEN failed ELSE failed \cup {"probeDecode"}
    /\ UNCHANGED <<isInitialized, stderrLines, adapter, serviceVars, utilVars, loopVars, captureVars>>
    /\ ended' = ended + 1
    /\ UNCHANGED <<engineThrows, request, fileKind, silenceIntervals, speechSegments,
                   constrainedSegments, chunks, warnings, previews, exports, chunkDir,
                   exportIndex, transcriptions, transcribeIndex, engineCalls,
                   created, response>>

\* Lines 246-268: the synchronous segment stage that follows detectSilences.
SegmentStage(silences) ==
    LET speech == BuildSpeechSegments(durationMs, silences, request.options)
        constrained == EnforceDurationConstraints(speech, request.options, durationMs)
    IN  /\ speechSegments' = speech
        /\ constrainedSegments' = constrained
        /\ chunks' = MakeChunks(constrained)
        /\ warnings' = IF Len(constrained) = 0
                       THEN Append(warnings, NoSpeechWarning)
                       ELSE warnings

\* lastSilenceStart === null (line 504); the times of the lines are >= 0.
NoSilenceStart == -1

RECURSIVE ParseSilenceLines(_, _, _, _)
\* detectSilences, lines 501-534: the loop over the lines and the trailing
\* silence_start.
ParseSilenceLines(lines, i, lastSilenceStart, intervals) ==
    IF i > Len(lines)
    THEN IF lastSilenceStart # NoSilenceStart
         THEN Append(intervals, Interval(Max2(0, lastSilenceStart), lastSilenceStart))
         ELSE intervals
    ELSE IF lines[i].kind = "silence_start"
    THEN ParseSilenceLines(lines, i + 1, lines[i].at, intervals)
    ELSE LET end == lines[i].at
             start == IF lastSilenceStart # NoSilenceStart
                      THEN lastSilenceStart
                      ELSE Max2(0, Num(end - lines[i].duration))
         IN  ParseSilenceLines(lines, i + 1, NoSilenceStart,
                               Append(intervals, Interval(Max2(0, start), Max2(start, end))))

RECURSIVE SortByStart(_)
\* Array.prototype.sort by startMs (line 536): stable.
SortByStart(intervals) ==
    IF Len(intervals) <= 1
    THEN intervals
    ELSE LET sorted == SortByStart(SubSeq(intervals, 1, Len(intervals) - 1))
             last == intervals[Len(intervals)]
             before == SelectSeq(sorted, LAMBDA x : x.startMs <= last.startMs)
             after == SelectSeq(sorted, LAMBDA x : x.startMs > last.startMs)
         IN  before \o <<last>> \o after

\* A detectSilences that returns the intervals in the order of the lines.
ParseSilencesInOrder(lines) == ParseSilenceLines(lines, 1, NoSilenceStart, <<>>)

\* What detectSilences returns for the lines of its command's stderr.
ParseSilences(lines) == SortByStart(ParseSilenceLines(lines, 1, NoSilenceStart, <<>>))

\* detectSilences (lines 473-537) reads one of `outputs`, or its command exits
\* non-zero; on success the segment stage runs and resolveOutputDir awaits mkdir.
DetectSilencesFrom(outputs) ==
    /\ pc = "detectSilences"
    /\ \/ /\ Reject("detectSilences")
          /\ UNCHANGED <<silenceIntervals, speechSegments, constrainedSegments,
                         chunks, warnings, stderrLines>>
       \/ \E lines \in outputs :
             /\ stderrLines' = lines
             /\ silenceIntervals' = ParseSilences(lines)
             /\ SegmentStage(ParseSilences(lines))
             /\ pc' = "resolveOutputDir"
             /\ UNCHANGED <<rejection, failed>>
    /\ UNCHANGED <<decodeReports, isInitialized, adapter, serviceVars, utilVars, loopVars, captureVars>>
    /\ ended' = ended + 1
    /\ UNCHANGED <<engineThrows, request, fileKind, durationMs, previews, exports, chunkDir,
                   exportIndex, transcriptions, transcribeIndex, commands,
                   engineCalls, created, response>>

DetectSilences == DetectSilencesFrom(DetectorOutputs(durationMs))

\* resolveOutputDir (lines 686-693), then renderOriginalPreview starts its command.
ResolveOutputDir ==
    /\ pc = "resolveOutputDir"
    /\ \/ /\ Reject("resolveOutputDir")
          /\ UNCHANGED <<commands, created>>
       \/ /\ created' = created \cup {Output("outputDir", 0)}
          /\ commands' = Append(commands, Command("ffmpeg original preview", 0))
          /\ pc' = "originalPreview"
          /\ UNCHANGED <<rejection, failed>>
    /\ UNCHANGED <<decodeReports, isInitialized, stderrLines, adapter, serviceVars, utilVars, loopVars, captureVars>>
    /\ UNCHANGED ended
    /\ UNCHANGED <<engineThrows, request, fileKind, durationMs, silenceIntervals, speechSegments,
                   constrainedSegments, chunks, warnings, previews, exports, chunkDir,
                   exportIndex, transcriptions, transcribeIndex, engineCalls, response>>

\* A transcription that hands every chunk to the engine at once.
AfterExportsAllAtOnce(exps, dir, warns, prevs) ==
    IF NormalizeTranscriptionOptions(request).enabled /\ Len(exps) > 0
    THEN /\ pc' = "transcribeChunk"
         /\ adapter' = TranscribeChunkExports(NormalizeTranscriptionOptions(request))
         /\ transcribeIndex' = 1
         /\ engineCalls' = engineCalls \o [k \in 1..Len(exps) |-> exps[k].id]
         /\ warnings' = warns
         /\ UNCHANGED response
    ELSE LET w == IF NormalizeTranscriptionOptions(request).enabled
                  THEN Append(warns, NoExportsWarning)
                  ELSE warns
         IN  /\ warnings' = w
             /\ Resolve(exps, dir, <<>>, w, prevs)
             /\ UNCHANGED <<transcribeIndex, engineCalls, adapter>>

\* Lines 289-324: with the exports known, either the first chunk is handed to
\* the engine or analyze returns.
AfterExports(exps, dir, warns, prevs) ==
    IF NormalizeTranscriptionOptions(request).enabled /\ Len(exps) > 0
    THEN /\ pc' = "transcribeChunk"
         /\ adapter' = TranscribeChunkExports(NormalizeTranscriptionOptions(request))
         /\ transcribeIndex' = 1
         /\ engineCalls' = Append(engineCalls, exps[1].id)
         /\ warnings' = warns
         /\ UNCHANGED response
    ELSE LET w == IF NormalizeTranscriptionOptions(request).enabled
                  THEN Append(warns, NoExportsWarning)
                  ELSE warns
         IN  /\ warnings' = w
             /\ Resolve(exps, dir, <<>>, w, prevs)
             /\ UNCHANGED <<transcribeIndex, engineCalls, adapter>>

RECURSIVE NextExportIndex(_, _)
\* The loop of renderChunkExports skips the segments without length (line 1008).
NextExportIndex(segments, index) ==
    IF index > Len(segments) \/ HasLength(segments[index])
    THEN index
    ELSE NextExportIndex(segments, index + 1)

\* The loop of renderChunkExports from `index` on: the next export command is
\* started, or the bundle is returned.
ContinueExports(index, exps, dir, warns, prevs) ==
    LET next == NextExportIndex(constrainedSegments, index)
    IN  IF next <= Len(constrainedSegments)
        THEN /\ pc' = "exportChunk"
             /\ exportIndex' = next
             /\ commands' = Append(commands, Command("ffmpeg export", next))
             /\ warnings' = warns
             /\ UNCHANGED <<transcribeIndex, engineCalls, adapter, response>>
        ELSE /\ AfterExports(exps, dir, warns, prevs)
             /\ UNCHANGED <<exportIndex, commands>>

\* renderOriginalPreview (lines 734-761) is awaited outside any try (line 715).
\* With no segments renderPreviews and renderChunkExports return at once.
RenderOriginalPreview ==
    /\ pc = "originalPreview"
    /\ \E outcome \in {"ok", "exit", "unreadable"} :
          IF outcome = "ok"
          THEN /\ previews' = [previews EXCEPT !.original = "preview"]
               /\ created' = created \cup {Output("original.mp3", 0)}
               /\ UNCHANGED <<rejection, failed>>
               /\ IF Len(constrainedSegments) > 0
                  THEN /\ pc' = "trimmedPreview"
                       /\ commands' = Append(commands, Command("ffmpeg trimmed preview", 0))
                       /\ UNCHANGED <<warnings, transcribeIndex, engineCalls, adapter, response>>
                  ELSE /\ AfterExports(<<>>, "", warnings, previews')
                       /\ UNCHANGED commands
          ELSE /\ Reject("originalPreview")
               /\ UNCHANGED <<previews, created, commands, warnings, transcribeIndex,
                              engineCalls, adapter, response>>
    /\ UNCHANGED <<decodeReports, isInitialized, stderrLines, serviceVars, utilVars, loopVars, captureVars>>
    /\ ended' = ended + 1
    /\ UNCHANGED <<engineThrows, request, fileKind, durationMs, silenceIntervals, speechSegments,
                   constrainedSegments, chunks, exports, chunkDir, exportIndex,
                   transcriptions>>

\* renderTrimmedPreview inside the try of renderPreviews (lines 717-726), then
\* renderChunkExports awaits the mkdir of the chunk directory (line 1002).
RenderTrimmedPreview ==
    /\ pc = "trimmedPreview"
    /\ \E outcome \in {"ok", "exit", "unreadable"} :
          IF outcome = "ok"
          THEN /\ previews' = [previews EXCEPT !.trimmed = "preview"]
               /\ created' = created \cup {Output("trimmed.mp3", 0)}
               /\ UNCHANGED <<warnings, failed>>
          ELSE /\ warnings' = Append(warnings, TrimmedPreviewWarning)
               /\ failed' = failed \cup {"trimmedPreview"}
               /\ UNCHANGED <<previews, created>>
    /\ pc' = "makeChunkDir"
    /\ UNCHANGED <<decodeReports, isInitialized, stderrLines, adapter, serviceVars, utilVars, loopVars, captureVars>>
    /\ ended' = ended + 1
    /\ UNCHANGED <<engineThrows, request, fileKind, durationMs, silenceIntervals, speechSegments,
                   constrainedSegments, chunks, exports, chunkDir, exportIndex,
                   transcriptions, transcribeIndex, commands, engineCalls, response,
                   rejection>>

\* renderChunkExports, line 1002, and the first turn of its loop.
MakeChunkDir ==
    /\ pc = "makeChunkDir"
    /\ \/ /\ Reject("makeChunkDir")
          /\ UNCHANGED <<chunkDir, created, exportIndex, commands, warnings,
                         transcribeIndex, engineCalls, adapter, response>>
       \/ /\ chunkDir' = "chunks"
          /\ created' = created \cup {Output("chunks", 0)}
          /\ ContinueExports(1, <<>>, "chunks", warnings, previews)
          /\ UNCHANGED <<rejection, failed>>
    /\ UNCHANGED <<decodeReports, isInitialized, stderrLines, serviceVars, utilVars, loopVars, captureVars>>
    /\ UNCHANGED ended
    /\ UNCHANGED <<engineThrows, request, fileKind, durationMs, silenceIntervals, speechSegments,
                   constrainedSegments, chunks, previews, exports, transcriptions>>

\* The entry renderChunkExports pushes for segment `index` (lines 1035-1042).
ChunkExport(segments, index) ==
    [id |-> index,
     startMs |-> segments[index].startMs,
     endMs |-> segments[index].endMs,
     durationMs |-> Max2(0, Round(Num(segments[index].endMs - segments[index].startMs)))]

\* An export loop that catches the failure of a command and goes on with the
\* next segment.
ExportChunkSkippingFailures ==
    /\ pc = "exportChunk"
    /\ \/ /\ failed' = failed \cup {"exportChunk"}
          /\ ContinueExports(exportIndex + 1, exports, chunkDir, warnings, previews)
          /\ UNCHANGED <<exports, created, rejection>>
       \/ /\ exports' = Append(exports, ChunkExport(constrainedSegments, exportIndex))
          /\ created' = created \cup {Output("chunk.wav", exportIndex)}
          /\ ContinueExports(exportIndex + 1, exports', chunkDir, warnings, previews)
          /\ UNCHANGED <<rejection, failed>>
    /\ UNCHANGED <<decodeReports, isInitialized, stderrLines, serviceVars, utilVars, loopVars, captureVars>>
    /\ ended' = ended + 1
    /\ UNCHANGED <<engineThrows, request, fileKind, durationMs, silenceIntervals,
                   speechSegments, constrainedSegments, chunks, previews, chunkDir,
                   transcriptions>>

\* One export command has ended (lines 1017-1042): a non-zero exit rejects
\* renderChunkExports and, nothing catching it, analyze.
ExportChunk ==
    /\ pc = "exportChunk"
    /\ \/ /\ Reject("exportChunk")
          /\ UNCHANGED <<exports, created, exportIndex, commands, warnings,
                         transcribeIndex, engineCalls, adapter, response>>
       \/ /\ exports' = Append(exports, ChunkExport(constrainedSegments, exportIndex))
          /\ created' = created \cup {Output("chunk.wav", exportIndex)}
          /\ ContinueExports(exportIndex + 1, exports', chunkDir, warnings, previews)
          /\ UNCHANGED <<rejection, failed>>
    /\ UNCHANGED <<decodeReports, isInitialized, stderrLines, serviceVars, utilVars, loopVars, captureVars>>
    /\ ended' = ended + 1
    /\ UNCHANGED <<engineThrows, request, fileKind, durationMs, silenceIntervals, speechSegments,
                   constrainedSegments, chunks, previews, chunkDir, transcriptions>>

\* What WhisperService.transcribe (whisper-service.ts, lines 78-182) can end
\* with for one chunk: the combined segment, no segment, the wav file missing
\* (line 86), an Error thrown inside its try, or another value thrown there.
EngineOutcomes ==
    {[kind |-> "segments", text |-> "bonjour monde", words |-> <<"bonjour", "monde">>],
     [kind |-> "segments", text |-> "", words |-> <<>>],
     [kind |-> "missing", text |-> "", words |-> <<>>],
     [kind |-> "error", text |-> "", words |-> <<>>],
     [kind |-> "error", text |-> "exit code 1", words |-> <<>>],
     [kind |-> "thrown", text |-> "", words |-> <<>>]}

EngineThrew(outcome) == outcome.kind # "segments"

\* An engine adapter that hands on the message of the error it caught.
RawErrorMessage(outcome) == outcome.text

\* The message of the Error WhisperService.transcribe throws (lines 86, 178-180);
\* for kind "error", outcome.text is the message of the Error it caught.
WhisperErrorMessage(outcome) ==
    CASE outcome.kind = "missing" -> "Audio file not found: " \o "chunk.wav"
      [] outcome.kind = "error" -> "Transcription failed: " \o outcome.text
      [] OTHER -> "Transcription failed: " \o "Unknown error"

\* The entry transcribeWithWhisper pushes for `chunk` (lines 862-878).
WhisperResult(chunk, outcome) ==
    IF EngineThrew(outcome)
    THEN [chunkId |-> chunk.id, text |-> "", words |-> <<>>,
          error |-> <<WhisperErrorMessage(outcome)>>]
    ELSE [chunkId |-> chunk.id, text |-> outcome.text, words |-> outcome.words,
          error |-> <<>>]

\* WhisperService.isInitialized after a call of transcribe that ended with
\* `outcome`: a call that returned segments has got through
\* ensureWhisperInstalled (whisper-service.ts, lines 37-55, 91), a call that
\* found no wav file has not reached it (line 85), and a call that threw inside
\* the try threw before or after line 55.
InitializedAfter(outcome) ==
    CASE outcome.kind = "segments" -> {TRUE}
      [] outcome.kind = "missing" -> {isInitialized}
      [] OTHER -> {isInitialized, TRUE}

\* After the result of chunk `index`: the loop of transcribeWithWhisper goes on
\* (line 816).
LoopContinues(index, exps) == index < Len(exps)

\* One engine call has ended (transcribeWithWhisper, lines 816-880).  Every
\* request being normalized to the engine "whisper", transcribeWithVosk is never
\* called.
TranscribeChunk ==
    /\ pc = "transcribeChunk"
    /\ adapter = "transcribeWithWhisper"
    /\ \E outcome \in EngineOutcomes :
          LET chunk == exports[transcribeIndex]
              results == Append(transcriptions, WhisperResult(chunk, outcome))
          IN  /\ transcriptions' = results
              /\ isInitialized' \in InitializedAfter(outcome)
              /\ engineThrows' = IF EngineThrew(outcome)
                                 THEN engineThrows \cup {chunk.id}
                                 ELSE engineThrows
              /\ IF LoopContinues(transcribeIndex, exports)
                 THEN /\ transcribeIndex' = transcribeIndex + 1
                      /\ engineCalls' = Append(engineCalls, exports[transcribeIndex + 1].id)
                      /\ UNCHANGED <<pc, response>>
                 ELSE /\ Resolve(exports, chunkDir, results, warnings, previews)
                      /\ UNCHANGED <<transcribeIndex, engineCalls>>
    /\ UNCHANGED <<decodeReports, stderrLines, adapter, serviceVars, utilVars, loopVars, captureVars>>
    /\ ended' = ended + 1
    /\ UNCHANGED <<request, fileKind, durationMs, silenceIntervals, speechSegments,
                   constrainedSegments, chunks, warnings, previews, exports, chunkDir,
                   exportIndex, commands, created, rejection, failed>>

-----------------------------------------------------------------------------
(* The variables of the other specifications while a request is followed.  *)

NoServiceCalls ==
    /\ whisperFiles = {}
    /\ calls = <<>>
    /\ flagWriter = 0
    /\ foreignAccess = {}

\* DEFAULT_OPTIONS (lines 172-179), in the units of its fields (dB, ms).
DEFAULT_OPTIONS ==
    [silenceThresholdDb |-> -40,
     minSilenceDurationMs |-> 1000,
     paddingBeforeMs |-> 200,
     paddingAfterMs |-> 300,
     minChunkDurationMs |-> 500,
     maxChunkDurationMs |-> 10 * 60 * 1000]

NoUtilCall ==
    /\ defaultOptions = DEFAULT_OPTIONS
    /\ argument = <<>>
    /\ returned = <<>>

NoLoop ==
    /\ loopSegment = 0
    /\ loopStart = 0
    /\ loopBounded = <<>>
    /\ loopTurn = 0

\* The fields of a new NativeAudioCaptureService (part_002, lines 20-24).
NoCapture ==
    /\ process = 0
    /\ isCapturing = FALSE
    /\ outputFilePath = 0
    /\ stopFilePath = 0
    /\ processes = <<>>
    /\ captureCalls = <<>>

-----------------------------------------------------------------------------
(* Spec: one analyze request, from its call to its result.                 *)

Init ==
    /\ pc = "ensureSourceExists"
    /\ request \in [options : RequestOptions, transcriptionEnabled : BOOLEAN,
                     engine : Engines]
    /\ fileKind \in {"file", "directory", "missing"}
    /\ durationMs = 0
    /\ silenceIntervals = <<>>
    /\ speechSegments = <<>>
    /\ constrainedSegments = <<>>
    /\ chunks = <<>>
    /\ warnings = <<>>
    /\ previews = NoPreviews
    /\ exports = <<>>
    /\ chunkDir = ""
    /\ exportIndex = 0
    /\ transcriptions = <<>>
    /\ transcribeIndex = 0
    /\ commands = <<>>
    /\ engineCalls = <<>>
    /\ engineThrows = {}
    /\ failed = {}
    /\ created = {}
    /\ response = <<>>
    /\ rejection = "none"
    /\ stderrLines = <<>>
    /\ decodeReports = <<>>
    /\ adapter = "none"
    /\ ended = 0
    /\ isInitialized = FALSE
    /\ NoServiceCalls
    /\ NoLoop
    /\ NoCapture
    /\ NoUtilCall

Next ==
    \/ EnsureSourceExists
    \/ ProbeFormat
    \/ ProbeStream
    \/ ProbeDecode
    \/ DetectSilences
    \/ ResolveOutputDir
    \/ RenderOriginalPreview
    \/ RenderTrimmedPreview
    \/ MakeChunkDir
    \/ ExportChunk
    \/ TranscribeChunk

Spec == Init /\ [][Next]_vars

-----------------------------------------------------------------------------
(* SegmentSpec: segment construction on every duration, silence list and   *)
(* options of the bounds.  It starts where probeDuration has returned and  *)
(* detectSilences is awaited, and ends with the segment stage.             *)

ProbeCommands(d) ==
    IF d > 0
    THEN <<Command("ffprobe format", 0), Command("ffmpeg silencedetect", 0)>>
    ELSE <<Command("ffprobe format", 0), Command("ffprobe stream", 0),
           Command("ffmpeg decode", 0), Command("ffmpeg silencedetect", 0)>>

\* probeDuration has returned one of `durations` for a request with one of
\* `options`, and detectSilences is awaited.
SilencesAwaited(durations, options) ==
    /\ pc = "detectSilences"
    /\ request \in [options : options, transcriptionEnabled : {FALSE},
                     engine : {"whisper"}]
    /\ fileKind = "file"
    /\ durationMs \in durations
    /\ silenceIntervals = <<>>
    /\ speechSegments = <<>>
    /\ constrainedSegments = <<>>
    /\ chunks = <<>>
    /\ warnings = <<>>
    /\ previews = NoPreviews
    /\ exports = <<>>
    /\ chunkDir = ""
    /\ exportIndex = 0
    /\ transcriptions = <<>>
    /\ transcribeIndex = 0
    /\ commands = ProbeCommands(durationMs)
    /\ engineCalls = <<>>
    /\ engineThrows = {}
    /\ failed = {}
    /\ created = {}
    /\ response = <<>>
    /\ rejection = "none"
    /\ stderrLines = <<>>
    /\ decodeReports = <<>>
    /\ adapter = "none"
    /\ ended = 0
    /\ isInitialized = FALSE
    /\ NoServiceCalls
    /\ NoLoop
    /\ NoCapture
    /\ NoUtilCall

SegmentInit == SilencesAwaited(Durations, OptionSet)

DetectAnySilences ==
    DetectSilencesFrom({LinesOf(silences) : silences \in SilenceLists(durationMs)})

SegmentNext == DetectAnySilences

SegmentSpec == SegmentInit /\ [][SegmentNext]_vars

-----------------------------------------------------------------------------
(* RoundingSpec: segment construction on times around 2 * ExactLimit,      *)
(* where the distance between two numbers doubles: a sum that crosses it   *)
(* is rounded.                                                             *)

\* Media that end somewhat above 2 * ExactLimit; no padding, no minimum or one
\* of 6 ms, and a maximum no segment exceeds.
RoundingDurations == {2 * ExactLimit + Ms(4)}

RoundingOptions == {Options(0, 0, minimum, ExactLimit) : minimum \in {0, 6}}

\* The times of the silences of a medium of d ticks: the numbers of whole ms
\* (even ticks) of its last 10 ms.
RoundingTimes(d) == {t \in (d - Ms(10))..d : t % 2 = 0 /\ Num(t) = t}

RoundingIntervals(d) ==
    {i \in {Interval(start, end) : start \in RoundingTimes(d), end \in RoundingTimes(d)} :
        i.startMs <= i.endMs}

\* The sorted lists of silences with 0 <= startMs <= endMs.
RoundingSilenceLists(d) ==
    UNION {{l \in [1..n -> RoundingIntervals(d)] : IsSortedByStart(l)} : n \in 0..MaxSilences}

RoundingInit == SilencesAwaited(RoundingDurations, RoundingOptions)

DetectRoundedSilences ==
    DetectSilencesFrom({LinesOf(silences) : silences \in RoundingSilenceLists(durationMs)})

RoundingNext == DetectRoundedSilences

RoundingSpec == RoundingInit /\ [][RoundingNext]_vars

-----------------------------------------------------------------------------
(* ConcurrentSpec: the requests in flight on the one MediaChunkService     *)
(* (index.ts, line 144), each in its transcription loop, and the calls of  *)
(* WhisperService.transcribe they make.  JavaScript runs a call from one   *)
(* await to the next without interruption: there is one action for each    *)
(* such stretch.                                                           *)

MaxRequests == 2        \* analyze requests in flight
MaxCalls == 2           \* chunks of a request

Requests == 1..MaxRequests

\* No analyze call is followed.
NoAnalyzeCall ==
    /\ pc = "none"
    /\ request = <<>>
    /\ fileKind = "file"
    /\ durationMs = 0
    /\ silenceIntervals = <<>>
    /\ speechSegments = <<>>
    /\ constrainedSegments = <<>>
    /\ chunks = <<>>
    /\ warnings = <<>>
    /\ previews = NoPreviews
    /\ exports = <<>>
    /\ chunkDir = ""
    /\ exportIndex = 0
    /\ transcriptions = <<>>
    /\ transcribeIndex = 0
    /\ commands = <<>>
    /\ engineCalls = <<>>
    /\ engineThrows = {}
    /\ failed = {}
    /\ created = {}
    /\ response = <<>>
    /\ rejection = "none"
    /\ stderrLines = <<>>
    /\ decodeReports = <<>>
    /\ adapter = "none"
    /\ ended = 0

\* The service is constructed (whisper-service.ts, line 26); whisperPath holds
\* the executable and the model, or not.
ConcurrentInit ==
    /\ NoAnalyzeCall
    /\ NoLoop
    /\ NoCapture
    /\ NoUtilCall
    /\ isInitialized = FALSE
    /\ whisperFiles \in SUBSET {"executable", "model"}
    /\ calls = [r \in Requests |-> [pc |-> "idle", index |-> 1, steps |-> <<>>]]
    /\ flagWriter = 0
    /\ foreignAccess = {}

\* Request r reads or writes isInitialized.
Access(r) ==
    foreignAccess' = IF flagWriter \notin {0, r}
                     THEN foreignAccess \cup {r}
                     ELSE foreignAccess

\* transcribe throws or returns: the loop of transcribeWithWhisper calls it for
\* the next chunk, or the request is done.
EndCall(r) ==
    calls' = [calls EXCEPT ![r] =
                 IF calls[r].index < MaxCalls
                 THEN [pc |-> "idle", index |-> calls[r].index + 1, steps |-> calls[r].steps]
                 ELSE [pc |-> "done", index |-> calls[r].index, steps |-> calls[r].steps]]

At(r, position, did) ==
    calls' = [calls EXCEPT ![r] = [pc |-> position, index |-> calls[r].index,
                                   steps |-> did]]

\* transcribe up to its first await (lines 78-91) and ensureWhisperInstalled up
\* to its own (lines 37-51).
EnterTranscribe ==
    \E r \in Requests :
        /\ calls[r].pc = "idle"
        /\ \/ /\ EndCall(r)                      \* line 85: no wav file
              /\ UNCHANGED <<isInitialized, flagWriter, foreignAccess>>
           \/ /\ Access(r)
              /\ IF isInitialized
                 THEN /\ At(r, "installed", <<>>)
                      /\ UNCHANGED <<isInitialized, flagWriter>>
                 ELSE IF "executable" \in whisperFiles
                 THEN /\ At(r, "installed", <<"existsSync executable">>)
                      /\ isInitialized' = TRUE
                      /\ flagWriter' = r
                 ELSE /\ At(r, "installing", <<"existsSync executable", "installWhisperCpp">>)
                      /\ UNCHANGED <<isInitialized, flagWriter>>
        /\ UNCHANGED <<whisperFiles, analyzeVars, utilVars, loopVars, captureVars>>

\* installWhisperCpp has ended (lines 47-55).
InstallEnds ==
    \E r \in Requests :
        /\ calls[r].pc = "installing"
        /\ \/ /\ EndCall(r)
              /\ UNCHANGED <<isInitialized, flagWriter, foreignAccess, whisperFiles>>
           \/ /\ whisperFiles' = whisperFiles \cup {"executable"}
              /\ isInitialized' = TRUE
              /\ flagWriter' = r
              /\ Access(r)
              /\ At(r, "installed", calls[r].steps)
        /\ UNCHANGED <<analyzeVars, utilVars, loopVars, captureVars>>

\* ensureModelDownloaded up to its await (lines 61-73, 99).
EnsureModelDownloaded ==
    \E r \in Requests :
        /\ calls[r].pc = "installed"
        /\ IF "model" \in whisperFiles
           THEN At(r, "modelReady", Append(calls[r].steps, "existsSync model"))
           ELSE At(r, "downloading",
                   calls[r].steps \o <<"existsSync model", "downloadWhisperModel">>)
        /\ UNCHANGED <<isInitialized, flagWriter, foreignAccess, whisperFiles,
                       analyzeVars, utilVars, loopVars, captureVars>>

\* downloadWhisperModel has ended (lines 65-72).
DownloadEnds ==
    \E r \in Requests :
        /\ calls[r].pc = "downloading"
        /\ \/ /\ EndCall(r)
              /\ UNCHANGED whisperFiles
           \/ /\ whisperFiles' = whisperFiles \cup {"model"}
              /\ At(r, "modelReady", calls[r].steps)
        /\ UNCHANGED <<isInitialized, flagWriter, foreignAccess, analyzeVars, utilVars, loopVars, captureVars>>

\* The engine is started (lines 108-115).
StartTranscribe ==
    \E r \in Requests :
        /\ calls[r].pc = "modelReady"
        /\ At(r, "transcribing", Append(calls[r].steps, "transcribe"))
        /\ UNCHANGED <<isInitialized, flagWriter, foreignAccess, whisperFiles,
                       analyzeVars, utilVars, loopVars, captureVars>>

\* The engine has ended (lines 117-181): transcribe returns or throws.
TranscribeEnds ==
    \E r \in Requests :
        /\ calls[r].pc = "transcribing"
        /\ EndCall(r)
        /\ UNCHANGED <<isInitialized, flagWriter, foreignAccess, whisperFiles,
                       analyzeVars, utilVars, loopVars, captureVars>>

ConcurrentNext ==
    \/ EnterTranscribe
    \/ InstallEnds
    \/ EnsureModelDownloaded
    \/ DownloadEnds
    \/ StartTranscribe
    \/ TranscribeEnds

ConcurrentSpec == ConcurrentInit /\ [][ConcurrentNext]_vars

-----------------------------------------------------------------------------
(* OptionsSpec: normalizeOptions on the options of one request after the   *)
(* other.                                                                  *)

\* A field the request leaves out, or request.options itself when left out;
\* what is there is <<value>>.
Undefined == <<>>

OptionNames == DOMAIN DEFAULT_OPTIONS

\* What a request supplies for an option: nothing, 0, or another number.
SuppliedValues == {Undefined, <<0>>, <<250>>}

\* request.options: left out, or any subset of the six options.
OptionArguments == {Undefined} \cup {<<o>> : o \in [OptionNames -> SuppliedValues]}

\* `value || fallback`: 0 is replaced as well.
OrElse(value, fallback) == IF value \in {Undefined, <<0>>} THEN fallback ELSE value[1]

\* `value ?? fallback`.
Coalesce(value, fallback) == IF value = Undefined THEN fallback ELSE value[1]

\* `options?.name`.
Field(options, name) == IF options = Undefined THEN Undefined ELSE options[1][name]

\* normalizeOptions (lines 327-338): the object it returns, and DEFAULT_OPTIONS,
\* which it only reads, as it leaves it.
NormalizeOptions(options, defaults) ==
    [resolved |-> [name \in OptionNames |-> Coalesce(Field(options, name), defaults[name])],
     defaults |-> defaults]

NormalizeOptionsCall ==
    /\ \E options \in OptionArguments :
          /\ argument' = options
          /\ returned' = NormalizeOptions(options, defaultOptions).resolved
          /\ defaultOptions' = NormalizeOptions(options, defaultOptions).defaults
    /\ UNCHANGED <<loopVars, captureVars, analyzeVars, isInitialized, serviceVars>>

OptionsInit ==
    /\ NoAnalyzeCall
    /\ NoServiceCalls
    /\ NoLoop
    /\ NoCapture
    /\ NoUtilCall
    /\ isInitialized = FALSE

OptionsNext == NormalizeOptionsCall

OptionsSpec == OptionsInit /\ [][OptionsNext]_vars

-----------------------------------------------------------------------------
(* TimestampSpec: formatTimestamp (whisper-service.ts) and                 *)
(* parseTimestampToSeconds (media-chunker.ts).  A number of seconds with   *)
(* millisecond precision is counted in ms; a string is the sequence of its *)
(* characters.                                                             *)

MaxHours == 100         \* longest time formatted, in hours

DigitChars == <<"0", "1", "2", "3", "4", "5", "6", "7", "8", "9">>

IsDigit(c) == \E d \in 1..10 : DigitChars[d] = c

DigitValue(c) == (CHOOSE d \in 1..10 : DigitChars[d] = c) - 1

RECURSIVE Digits(_)
\* Number.prototype.toString of a non-negative integer.
Digits(n) ==
    IF n < 10
    THEN <<DigitChars[n + 1]>>
    ELSE Append(Digits(n \div 10), DigitChars[(n % 10) + 1])

\* A padStart that leaves the string as it is.
NoPadStart(chars, length, fill) == chars

RECURSIVE PadStart(_, _, _)
\* String.prototype.padStart.
PadStart(chars, length, fill) ==
    IF Len(chars) >= length
    THEN chars
    ELSE PadStart(<<fill>> \o chars, length, fill)

\* secs.toFixed(3) of a number of ms below one minute.
ToFixed3(ms) == Digits(ms \div 1000) \o <<".">> \o PadStart(Digits(ms % 1000), 3, "0")

\* formatTimestamp (whisper-service.ts, lines 187-193).
FormatTimestamp(ms) ==
    LET hours == ms \div 3600000
        minutes == (ms % 3600000) \div 60000
        secs == ms % 60000
    IN  PadStart(Digits(hours), 2, "0") \o <<":">>
            \o PadStart(Digits(minutes), 2, "0") \o <<":">>
            \o PadStart(ToFixed3(secs), 6, "0")

AllDigits(chars) == \A k \in 1..Len(chars) : IsDigit(chars[k])

RECURSIVE DigitsValue(_)
\* parseInt(chars, 10) of a string of digits (0 for the empty string).
DigitsValue(chars) ==
    IF Len(chars) = 0
    THEN 0
    ELSE 10 * DigitsValue(SubSeq(chars, 1, Len(chars) - 1)) + DigitValue(chars[Len(chars)])

\* The length of the longest prefix of digits of the string from `from` on.
DigitRun(chars, from) ==
    LET stops == {k \in from..Len(chars) : ~IsDigit(chars[k])}
    IN  IF stops = {}
        THEN Len(chars) - from + 1
        ELSE (CHOOSE k \in stops : \A j \in stops : k <= j) - from

\* The ms of a string of fraction digits: its first three, the rest being
\* below a millisecond.
FractionMs(chars) ==
    DigitsValue(SubSeq(chars \o <<"0", "0", "0">>, 1, 3))

\* parseFloat of a string of digits, ":" and ".", in ms: <<>> is NaN.
ParseFloat(chars) ==
    LET whole == DigitRun(chars, 1)
        point == Len(chars) > whole /\ chars[whole + 1] = "."
        fraction == IF point THEN DigitRun(chars, whole + 2) ELSE 0
    IN  IF whole = 0 /\ fraction = 0
        THEN <<>>
        ELSE <<1000 * DigitsValue(SubSeq(chars, 1, whole))
                 + FractionMs(SubSeq(chars, whole + 2, whole + 1 + fraction))>>

Colons(chars) == {k \in 1..Len(chars) : chars[k] = ":"}

\* The three groups of /^(\d{1,2}):(\d{2}):(\d{2}(?:\.\d+)?)$/ (line 24), or <<>>
\* when the string does not match.
MatchTimestamp(chars) ==
    IF Cardinality(Colons(chars)) # 2
    THEN <<>>
    ELSE LET first == CHOOSE k \in Colons(chars) : \A j \in Colons(chars) : k <= j
             second == CHOOSE k \in Colons(chars) : \A j \in Colons(chars) : k >= j
             hours == SubSeq(chars, 1, first - 1)
             minutes == SubSeq(chars, first + 1, second - 1)
             seconds == SubSeq(chars, second + 1, Len(chars))
         IN  IF /\ Len(hours) \in {1, 2}
                /\ AllDigits(hours)
                /\ Len(minutes) = 2
                /\ AllDigits(minutes)
                /\ Len(seconds) >= 2
                /\ AllDigits(SubSeq(seconds, 1, 2))
                /\ \/ Len(seconds) = 2
                   \/ /\ Len(seconds) >= 4
                      /\ seconds[3] = "."
                      /\ AllDigits(SubSeq(seconds, 4, Len(seconds)))
             THEN <<hours, minutes, seconds>>
             ELSE <<>>

\* parseTimestampToSeconds (media-chunker.ts, lines 16-34), in ms.
ParseTimestampToSeconds(timestamp) ==
    LET numericValue == ParseFloat(timestamp)
        match == MatchTimestamp(timestamp)
    IN  IF numericValue # <<>> /\ Colons(timestamp) = {}
        THEN numericValue[1]
        ELSE IF match # <<>>
        THEN DigitsValue(match[1]) * 3600 * 1000
                 + DigitsValue(match[2]) * 60 * 1000
                 + ParseFloat(match[3])[1]
        ELSE IF numericValue # <<>>
        THEN numericValue[1]
        ELSE 0

\* The times formatted: every number of hours up to MaxHours with the first
\* and last minutes, seconds and milliseconds.
TimestampArguments ==
    {h * 3600000 + m * 60000 + sec * 1000 + ms :
        h \in 0..MaxHours, m \in {0, 1, 59}, sec \in {0, 9, 59}, ms \in {0, 1, 123, 999}}

TimestampInit ==
    /\ NoAnalyzeCall
    /\ NoServiceCalls
    /\ NoLoop
    /\ NoCapture
    /\ isInitialized = FALSE
    /\ defaultOptions = DEFAULT_OPTIONS
    /\ argument \in TimestampArguments
    /\ returned = <<>>

\* The round trip of the test (utils.test.ts, lines 126-136).
FormatThenParse ==
    /\ returned = <<>>
    /\ returned' = <<[formatted |-> FormatTimestamp(argument),
                      parsed |-> ParseTimestampToSeconds(FormatTimestamp(argument))]>>
    /\ UNCHANGED <<loopVars, captureVars, analyzeVars, isInitialized, serviceVars, defaultOptions, argument>>

TimestampNext == FormatThenParse

TimestampSpec == TimestampInit /\ [][TimestampNext]_vars

-----------------------------------------------------------------------------
(* DetectorSpec: the parsing of detectSilences (media-chunker.ts, lines    *)
(* 498-536) on every sequence of silence_start and silence_end lines of    *)
(* the bounds, paired or not.                                              *)

MaxEvents == 3          \* most lines of the detector that match
MaxEventMs == 2         \* latest time and longest duration of a line, in ms

\* The lines that match one of the two patterns.
DetectorEvents ==
    {SilenceStart(Ms(at)) : at \in 0..MaxEventMs}
        \cup {SilenceEnd(Ms(at), Ms(duration)) : at \in 0..MaxEventMs,
                                                 duration \in 0..MaxEventMs}

DetectorEventLists == UNION {[1..n -> DetectorEvents] : n \in 0..MaxEvents}

DetectorInit ==
    /\ NoAnalyzeCall
    /\ NoServiceCalls
    /\ NoLoop
    /\ NoCapture
    /\ isInitialized = FALSE
    /\ defaultOptions = DEFAULT_OPTIONS
    /\ argument \in DetectorEventLists
    /\ returned = <<>>

\* detectSilences parses the stderr of its command and returns.
ParseDetectorOutput ==
    /\ returned = <<>>
    /\ returned' = <<ParseSilences(argument)>>
    /\ UNCHANGED <<loopVars, captureVars, analyzeVars, isInitialized, serviceVars, defaultOptions, argument>>

DetectorNext == ParseDetectorOutput

DetectorSpec == DetectorInit /\ [][DetectorNext]_vars

-----------------------------------------------------------------------------
(* TextSpec: the cleaning of the joined text in WhisperService.transcribe  *)
(* (whisper-service.ts, lines 152-157; cleanTranscriptionText in           *)
(* utils.test.ts).  A string is the sequence of its characters.            *)

MaxTextLen == 5         \* longest raw text

\* Characters \s matches, the marks of the two patterns, and a letter.
Whitespace == {" ", "\n"}

Punctuation == {".", ",", "!", "?", ";", ":"}

\* The characters of the raw texts of the model.
TextChars == {"a", " ", "\n", ".", "?"}

RawTexts == UNION {[1..n -> TextChars] : n \in 0..MaxTextLen}

IsSpace(c) == c \in Whitespace

IsMark(c) == c \in Punctuation

\* The length of the run of whitespace of the string from `from` on.
WhitespaceRun(chars, from) ==
    LET stops == {k \in from..Len(chars) : ~IsSpace(chars[k])}
    IN  IF stops = {}
        THEN Len(chars) - from + 1
        ELSE (CHOOSE k \in stops : \A j \in stops : k <= j) - from

RECURSIVE CollapseWhitespace(_, _, _)
\* .replace(/\s+/g, ' ') (line 154).
CollapseWhitespace(chars, i, out) ==
    IF i > Len(chars)
    THEN out
    ELSE IF IsSpace(chars[i])
    THEN CollapseWhitespace(chars, i + WhitespaceRun(chars, i), Append(out, " "))
    ELSE CollapseWhitespace(chars, i + 1, Append(out, chars[i]))

RECURSIVE RemoveSpaceBefore(_, _, _)
\* .replace(/\s+([.,!?;:])/g, '$1') (line 155).
RemoveSpaceBefore(chars, i, out) ==
    IF i > Len(chars)
    THEN out
    ELSE IF IsSpace(chars[i])
    THEN LET run == WhitespaceRun(chars, i)
         IN  IF i + run <= Len(chars) /\ IsMark(chars[i + run])
             THEN RemoveSpaceBefore(chars, i + run + 1, Append(out, chars[i + run]))
             ELSE RemoveSpaceBefore(chars, i + run, out \o SubSeq(chars, i, i + run - 1))
    ELSE RemoveSpaceBefore(chars, i + 1, Append(out, chars[i]))

RECURSIVE SpaceAfter(_, _, _)
\* .replace(/([.,!?;:])\s*/g, '$1 ') (line 156).
SpaceAfter(chars, i, out) ==
    IF i > Len(chars)
    THEN out
    ELSE IF IsMark(chars[i])
    THEN SpaceAfter(chars, i + 1 + WhitespaceRun(chars, i + 1), out \o <<chars[i], " ">>)
    ELSE SpaceAfter(chars, i + 1, Append(out, chars[i]))

\* A trim that leaves the string as it is.
NoTrim(chars) == chars

\* .trim() (line 157).
Trim(chars) ==
    LET kept == {k \in 1..Len(chars) : ~IsSpace(chars[k])}
    IN  IF kept = {}
        THEN <<>>
        ELSE SubSeq(chars,
                    CHOOSE k \in kept : \A j \in kept : k <= j,
                    CHOOSE k \in kept : \A j \in kept : k >= j)

\* fullText (lines 153-157).
CleanTranscriptionText(rawText) ==
    Trim(SpaceAfter(RemoveSpaceBefore(CollapseWhitespace(rawText, 1, <<>>), 1, <<>>),
                    1, <<>>))

TextInit ==
    /\ NoAnalyzeCall
    /\ NoServiceCalls
    /\ NoLoop
    /\ NoCapture
    /\ isInitialized = FALSE
    /\ defaultOptions = DEFAULT_OPTIONS
    /\ argument \in RawTexts
    /\ returned = <<>>

\* The raw text is cleaned.
CleanText ==
    /\ returned = <<>>
    /\ returned' = <<CleanTranscriptionText(argument)>>
    /\ UNCHANGED <<loopVars, captureVars, analyzeVars, isInitialized, serviceVars, defaultOptions, argument>>

\* The cleaned text is cleaned again.
CleanAgain ==
    /\ Len(returned) = 1
    /\ returned' = Append(returned, CleanTranscriptionText(returned[1]))
    /\ UNCHANGED <<loopVars, captureVars, analyzeVars, isInitialized, serviceVars, defaultOptions, argument>>

TextNext == CleanText \/ CleanAgain

TextSpec == TextInit /\ [][TextNext]_vars

-----------------------------------------------------------------------------
(* LoopSpec: the second loop of enforceDurationConstraints                 *)
(* (media-chunker.ts, lines 659-684) on the segments its first loop leaves, *)
(* one action for each iteration of the while loop and one for the         *)
(* remainder of each segment.  normalizeOptions passes every number on     *)
(* (lines 327-338): the maximum is drawn from negative numbers and zero    *)
(* too.                                                                    *)

MaxWindows == 6         \* the windows of bounded the model keeps

\* The minimum and the maximum of the options of the call, in ms.
LoopMinimums == {0, 2}
LoopMaximums == {-1, 0, 1, 2}

LoopOptions == {Options(0, 0, mn, mx) : mn \in LoopMinimums, mx \in LoopMaximums}

\* What the second loop starts from: `normalized` of a call on the speech
\* segments of a medium.
LoopArguments(durations) ==
    UNION {UNION {{[normalized |->
                       NormalizedSegments(BuildSpeechSegments(d, silences, o), o, d),
                    options |-> o,
                    durationMs |-> d] : silences \in SilenceLists(d)}
                  : o \in LoopOptions}
           : d \in durations}

\* let currentStart = segment.startMs (line 662), for the segment at index i.
FirstStart(normalized, i) ==
    IF i <= Len(normalized) THEN normalized[i].startMs ELSE 0

LoopInit ==
    /\ NoAnalyzeCall
    /\ NoServiceCalls
    /\ NoCapture
    /\ isInitialized = FALSE
    /\ defaultOptions = DEFAULT_OPTIONS
    /\ argument \in LoopArguments(Durations)
    /\ returned = <<>>
    /\ loopSegment = 1
    /\ loopStart = FirstStart(argument.normalized, 1)
    /\ loopBounded = <<>>
    /\ loopTurn = 0

\* One iteration of the while loop (lines 665-669).  Of a list that grows
\* beyond MaxWindows the model keeps the first windows; a list that is returned
\* is shorter.
PushWindow ==
    /\ returned = <<>>
    /\ loopSegment <= Len(argument.normalized)
    /\ ExceedsMaximum(argument.normalized[loopSegment].endMs, loopStart,
                      argument.options)
    /\ LET chunkEnd == Num(loopStart + argument.options.maxChunkDurationMs)
       IN  /\ loopBounded' = IF Len(loopBounded) < MaxWindows
                             THEN Append(loopBounded, Interval(loopStart, chunkEnd))
                             ELSE loopBounded
           /\ loopStart' = chunkEnd
    /\ loopTurn' = 1 - loopTurn
    /\ UNCHANGED <<loopSegment, captureVars, analyzeVars, isInitialized, serviceVars,
                   utilVars>>

\* The while loop has ended: the remainder of the segment (lines 671-677),
\* and on to the next segment.
PushRemainder ==
    /\ returned = <<>>
    /\ loopSegment <= Len(argument.normalized)
    /\ ~ExceedsMaximum(argument.normalized[loopSegment].endMs, loopStart,
                       argument.options)
    /\ LET segmentEnd == argument.normalized[loopSegment].endMs
           remaining == Num(segmentEnd - loopStart)
       IN  loopBounded' =
               IF AbsorbsRemainder(loopBounded, remaining, argument.options)
               THEN [loopBounded EXCEPT ![Len(loopBounded)].endMs =
                                            Min2(argument.durationMs, segmentEnd)]
               ELSE Append(loopBounded, Interval(loopStart, segmentEnd))
    /\ loopSegment' = loopSegment + 1
    /\ loopStart' = FirstStart(argument.normalized, loopSegment + 1)
    /\ UNCHANGED <<loopTurn, captureVars, analyzeVars, isInitialized, serviceVars, utilVars>>

\* The loop over the segments has ended: return bounded.map(...) (lines 680-683).
ReturnBounded ==
    /\ returned = <<>>
    /\ loopSegment > Len(argument.normalized)
    /\ returned' = <<[k \in 1..Len(loopBounded) |->
                        Interval(Max2(0, loopBounded[k].startMs),
                                 Min2(argument.durationMs, loopBounded[k].endMs))]>>
    /\ UNCHANGED <<loopVars, captureVars, analyzeVars, isInitialized, serviceVars,
                   defaultOptions, argument>>

LoopNext == PushWindow \/ PushRemainder \/ ReturnBounded

LoopSpec == LoopInit /\ [][LoopNext]_vars

\* The loop is synchronous code: it takes its next step whenever it has one.
LoopFairSpec == LoopSpec /\ WF_vars(LoopNext)

-----------------------------------------------------------------------------
(* CaptureSpec: the NativeAudioCaptureService (src/unnamed/part_002) under *)
(* the startCapture and stopCapture calls made on it, the calls in flight  *)
(* together.  JavaScript runs a call from one await to the next without    *)
(* interruption: there is one action for each such stretch, and one for    *)
(* each event of a capturer process.  A path is the call whose timestamp   *)
(* names it (lines 98-100); the timestamps of two calls differ, so the     *)
(* stop file of a new call does not exist yet (line 103).                  *)

MaxCaptureCalls == 3    \* calls made on the service

CaptureCall(op, at, error, processToKill) ==
    [op |-> op, pc |-> at, error |-> error, processToKill |-> processToKill]

\* Call c goes on to its next await, or ends there.
MoveCall(c, at, error) ==
    captureCalls' = [captureCalls EXCEPT ![c].pc = at, ![c].error = error]

\* The capturer process p runs.
IsAlive(p) == processes[p].status = "running"

\* spawn (line 117) has failed for p and its 'error' event is still to come.
ErrorPending(p) == processes[p].status = "failing"

\* What this.process refers to, if it is alive.
TrackedAlive == IF process # 0 /\ IsAlive(process) THEN process ELSE 0

CaptureInit ==
    /\ NoAnalyzeCall
    /\ NoServiceCalls
    /\ NoUtilCall
    /\ NoLoop
    /\ NoCapture
    /\ isInitialized = FALSE

\* startCapture up to its first await (lines 84-96).
StartCapture ==
    /\ Len(captureCalls) < MaxCaptureCalls
    /\ \E capturerExists \in BOOLEAN :
          captureCalls' =
              Append(captureCalls,
                     IF isCapturing
                     THEN CaptureCall("startCapture", "rejected", "Already capturing", 0)
                     ELSE IF ~capturerExists
                     THEN CaptureCall("startCapture", "rejected",
                                      "AudioCapturer.exe not found", 0)
                     ELSE CaptureCall("startCapture", "mkdir", "none", 0))
    /\ UNCHANGED <<process, isCapturing, outputFilePath, stopFilePath, processes>>
    /\ UNCHANGED <<analyzeVars, isInitialized, serviceVars, utilVars, loopVars>>

\* mkdir has ended (line 96): it rejects, or the paths are named and the
\* process is spawned (lines 98-142).  spawn returns a process that runs or
\* one whose start has failed.
StartSpawns(c) ==
    /\ captureCalls[c].op = "startCapture"
    /\ captureCalls[c].pc = "mkdir"
    /\ \/ /\ MoveCall(c, "rejected", "mkdir")
          /\ UNCHANGED <<process, isCapturing, outputFilePath, stopFilePath, processes>>
       \/ /\ outputFilePath' = c
          /\ stopFilePath' = c
          /\ \E status \in {"running", "failing"} :
                processes' = Append(processes,
                                    [status |-> status, call |-> c,
                                     spawnedOver |-> TrackedAlive])
          /\ process' = Len(processes) + 1
          /\ isCapturing' = TRUE
          /\ MoveCall(c, "settle", "none")
    /\ UNCHANGED <<analyzeVars, isInitialized, serviceVars, utilVars, loopVars>>

\* The timer of startCapture has fired (lines 142-146).
StartSettles(c) ==
    /\ captureCalls[c].op = "startCapture"
    /\ captureCalls[c].pc = "settle"
    /\ IF isCapturing
       THEN MoveCall(c, "resolved", "none")
       ELSE MoveCall(c, "rejected", "Failed to start audio capture process")
    /\ UNCHANGED <<process, isCapturing, outputFilePath, stopFilePath, processes>>
    /\ UNCHANGED <<analyzeVars, isInitialized, serviceVars, utilVars, loopVars>>

\* The 'error' event of process p (lines 136-139).
ProcessError(p) ==
    /\ ErrorPending(p)
    /\ processes' = [processes EXCEPT ![p].status = "failed"]
    /\ isCapturing' = FALSE
    /\ UNCHANGED <<process, outputFilePath, stopFilePath, captureCalls>>
    /\ UNCHANGED <<analyzeVars, isInitialized, serviceVars, utilVars, loopVars>>

\* Process p exits on its own; its 'close' handler logs (lines 132-134).
ProcessCloses(p) ==
    /\ IsAlive(p)
    /\ processes' = [processes EXCEPT ![p].status = "closed"]
    /\ UNCHANGED <<process, isCapturing, outputFilePath, stopFilePath, captureCalls>>
    /\ UNCHANGED <<analyzeVars, isInitialized, serviceVars, utilVars, loopVars>>

\* stopCapture up to its first await (lines 153-164).
StopCapture ==
    /\ Len(captureCalls) < MaxCaptureCalls
    /\ IF ~isCapturing \/ process = 0
       THEN /\ captureCalls' =
                   Append(captureCalls,
                          CaptureCall("stopCapture", "rejected",
                                      "Not currently capturing", 0))
            /\ UNCHANGED isCapturing
       ELSE /\ captureCalls' =
                   Append(captureCalls,
                          CaptureCall("stopCapture", "writeFile", "none", process))
            /\ isCapturing' = FALSE
    /\ UNCHANGED <<process, outputFilePath, stopFilePath, processes>>
    /\ UNCHANGED <<analyzeVars, isInitialized, serviceVars, utilVars, loopVars>>

\* writeFile of the stop file has ended (line 164).
StopWritesFile(c) ==
    /\ captureCalls[c].op = "stopCapture"
    /\ captureCalls[c].pc = "writeFile"
    /\ \/ MoveCall(c, "rejected", "writeFile")
       \/ MoveCall(c, "waitClose", "none")
    /\ UNCHANGED <<process, isCapturing, outputFilePath, stopFilePath, processes>>
    /\ UNCHANGED <<analyzeVars, isInitialized, serviceVars, utilVars, loopVars>>

\* The wait for processToKill has ended (lines 167-179): it has closed, or the
\* timeout has killed it.
StopWaitEnds(c) ==
    /\ captureCalls[c].op = "stopCapture"
    /\ captureCalls[c].pc = "waitClose"
    /\ processes' =
           IF IsAlive(captureCalls[c].processToKill)
           THEN [processes EXCEPT ![captureCalls[c].processToKill].status = "closed"]
           ELSE processes
    /\ MoveCall(c, "settle", "none")
    /\ UNCHANGED <<process, isCapturing, outputFilePath, stopFilePath>>
    /\ UNCHANGED <<analyzeVars, isInitialized, serviceVars, utilVars, loopVars>>

\* The stop file is removed and the timer has fired (lines 182-199): the output
\* file is missing, or readFile is awaited.
StopSettles(c) ==
    /\ captureCalls[c].op = "stopCapture"
    /\ captureCalls[c].pc = "settle"
    /\ \/ MoveCall(c, "rejected", "Output file not found")
       \/ MoveCall(c, "readFile", "none")
    /\ UNCHANGED <<process, isCapturing, outputFilePath, stopFilePath, processes>>
    /\ UNCHANGED <<analyzeVars, isInitialized, serviceVars, utilVars, loopVars>>

\* readFile has ended (lines 199-207).
StopReadsFile(c) ==
    /\ captureCalls[c].op = "stopCapture"
    /\ captureCalls[c].pc = "readFile"
    /\ \/ /\ MoveCall(c, "rejected", "readFile")
          /\ UNCHANGED process
       \/ /\ MoveCall(c, "resolved", "none")
          /\ process' = 0
    /\ UNCHANGED <<isCapturing, outputFilePath, stopFilePath, processes>>
    /\ UNCHANGED <<analyzeVars, isInitialized, serviceVars, utilVars, loopVars>>

CaptureNext ==
    \/ StartCapture
    \/ StopCapture
    \/ \E c \in 1..Len(captureCalls) :
          \/ StartSpawns(c)
          \/ StartSettles(c)
          \/ StopWritesFile(c)
          \/ StopWaitEnds(c)
          \/ StopSettles(c)
          \/ StopReadsFile(c)
    \/ \E p \in 1..Len(processes) :
          \/ ProcessError(p)
          \/ ProcessCloses(p)

CaptureSpec == CaptureInit /\ [][CaptureNext]_vars

-----------------------------------------------------------------------------
(* Properties of segment construction, checked under SegmentSpec.          *)

\* The segment stage has run.
Segmented == pc = "resolveOutputDir"

Length(segment) == segment.endMs - segment.startMs

\* Tick t, the half millisecond from t to t + 1, lies in the interval.
Covers(interval, t) == interval.startMs <= t /\ t < interval.endMs

Ticks == 0..(durationMs - 1)

SegmentsCovering(t) ==
    Cardinality({k \in 1..Len(constrainedSegments) : Covers(constrainedSegments[k], t)})

SilencesCovering(t) ==
    Cardinality({k \in 1..Len(silenceIntervals) : Covers(silenceIntervals[k], t)})

\* C1: the final segments are strictly ascending by startMs and do not overlap,
\* and the chunks carry the identifiers 1..n in the order of the segments.
C1_OrderedSegments ==
    /\ \A k \in 2..Len(constrainedSegments) :
          /\ constrainedSegments[k].startMs >= constrainedSegments[k - 1].endMs
          /\ constrainedSegments[k].startMs > constrainedSegments[k - 1].startMs
    /\ Len(chunks) = Len(constrainedSegments)
    /\ \A k \in 1..Len(chunks) :
          /\ chunks[k].id = k
          /\ chunks[k].startMs = Round(constrainedSegments[k].startMs)
          /\ chunks[k].endMs = Round(constrainedSegments[k].endMs)

\* Three chunks, one of them grown from a speech segment shorter than the minimum
\* onto half milliseconds.
C1_Witness ==
    /\ Segmented
    /\ Len(chunks) >= 3
    /\ Len(silenceIntervals) = 2
    /\ \E k \in 1..Len(chunks) : chunks[k].startMs # constrainedSegments[k].startMs

DisjointSilences ==
    \A j, k \in 1..Len(silenceIntervals) :
        j < k => silenceIntervals[j].endMs <= silenceIntervals[k].startMs

\* C2 as stated, on the silence lists a detector reports (pairwise disjoint
\* intervals): every tick of [0, durationMs] lies in exactly one final segment
\* or silence interval.
C2_CoveredExactlyOnce ==
    (Segmented /\ DisjointSilences)
        => \A t \in Ticks : SegmentsCovering(t) + SilencesCovering(t) = 1

\* C2 as amended: every tick of [0, durationMs] lies in a final segment or in a
\* silence interval, and in at most one final segment; it lies in exactly one
\* of them all when the paddings and the minimum are 0 and the silence
\* intervals are pairwise disjoint.
C2_CoveredWithoutGap ==
    Segmented =>
        \A t \in Ticks :
            /\ SegmentsCovering(t) <= 1
            /\ SegmentsCovering(t) + SilencesCovering(t) >= 1
            /\ (/\ request.options.paddingBeforeMs = 0
                /\ request.options.paddingAfterMs = 0
                /\ request.options.minChunkDurationMs = 0
                /\ DisjointSilences)
               => SegmentsCovering(t) + SilencesCovering(t) = 1

\* Padding has carried a final segment into a silence interval.
C2_Witness ==
    /\ Segmented
    /\ request.options.paddingAfterMs > 0
    /\ Len(constrainedSegments) >= 2
    /\ \E t \in Ticks : SegmentsCovering(t) = 1 /\ SilencesCovering(t) = 1

TouchesBoundary(segment) == segment.startMs = 0 \/ segment.endMs = durationMs

EndsLongSegment(segment) ==
    LET normalized == NormalizedSegments(speechSegments, request.options, durationMs)
    IN  \E j \in 1..Len(normalized) :
            /\ normalized[j].endMs = segment.endMs
            /\ normalized[j].startMs <= segment.startMs
            /\ Length(normalized[j]) > request.options.maxChunkDurationMs

Normalized == NormalizedSegments(speechSegments, request.options, durationMs)

\* The number of whole windows split from a segment of `length` > maximum: one
\* for as long as more than the maximum is left.
WindowCount(length, maximum) == (length - 1) \div maximum

\* What C19 says the maximum-duration pass makes of a segment longer than the
\* maximum: windows of the maximum from its start on, then the remainder, on
\* its own when it is at least the minimum and within the last window if not.
ExpectedSplit(segment, options) ==
    LET maximum == options.maxChunkDurationMs
        count == WindowCount(Length(segment), maximum)
        remainder == Length(segment) - count * maximum
        window(k) == Interval(segment.startMs + (k - 1) * maximum,
                              segment.startMs + k * maximum)
    IN  IF remainder >= options.minChunkDurationMs
        THEN [k \in 1..(count + 1) |->
                 IF k <= count
                 THEN window(k)
                 ELSE Interval(segment.startMs + count * maximum, segment.endMs)]
        ELSE [k \in 1..count |->
                 IF k < count
                 THEN window(k)
                 ELSE Interval(window(k).startMs, segment.endMs)]

\* The final segments that lie within the segment.
PiecesOf(segment) ==
    SelectSeq(constrainedSegments,
              LAMBDA piece : /\ segment.startMs <= piece.startMs
                             /\ piece.endMs <= segment.endMs)

\* The final segments that overlap the segment.
Overlapping(segment) ==
    SelectSeq(constrainedSegments,
              LAMBDA piece : /\ piece.startMs < segment.endMs
                             /\ segment.startMs < piece.endMs)

Unpadded == SegmentsBeforePadding(durationMs, silenceIntervals)

Padded == WithPadding(Unpadded, request.options, Max2(0, durationMs))

\* The speech segments that span both intervals.
Spanning(first, second) ==
    {j \in 1..Len(speechSegments) :
        /\ speechSegments[j].startMs <= first.startMs
        /\ second.endMs <= speechSegments[j].endMs}

\* The speech segments that overlap the interval.
Meeting(interval) ==
    {j \in 1..Len(speechSegments) :
        /\ speechSegments[j].startMs < interval.endMs
        /\ interval.startMs < speechSegments[j].endMs}

\* C20: when the padded start of a speech segment is at or before the padded
\* end of the one before it, buildSpeechSegments returns exactly one segment
\* that spans both; every segment it returns has positive length, lies within
\* [0, durationMs] and starts strictly after the end of the one before it.
C20_PaddingMerge ==
    Segmented =>
        /\ LET padded == Padded
           IN  \A k \in 2..Len(padded) :
                  padded[k].startMs <= padded[k - 1].endMs
                      => /\ Cardinality(Spanning(padded[k - 1], padded[k])) = 1
                         /\ Meeting(padded[k - 1]) = Spanning(padded[k - 1], padded[k])
                         /\ Meeting(padded[k]) = Spanning(padded[k - 1], padded[k])
        /\ \A j \in 1..Len(speechSegments) :
              /\ speechSegments[j].startMs < speechSegments[j].endMs
              /\ 0 <= speechSegments[j].startMs
              /\ speechSegments[j].endMs <= durationMs
              /\ j > 1 => speechSegments[j].startMs > speechSegments[j - 1].endMs

\* Padding has made two speech segments that a silence kept apart touch
\* exactly, and one segment is returned for the two.
C20_Witness ==
    /\ Segmented
    /\ Len(Unpadded) = 2
    /\ Unpadded[2].startMs > Unpadded[1].endMs
    /\ Len(Padded) = 2
    /\ Padded[2].startMs = Padded[1].endMs
    /\ Len(speechSegments) = 1
    /\ speechSegments[1].startMs = Padded[1].startMs
    /\ speechSegments[1].endMs = Padded[2].endMs

ZeroPadding ==
    request.options.paddingBeforeMs = 0 /\ request.options.paddingAfterMs = 0

SpeechCovering(t) ==
    Cardinality({k \in 1..Len(speechSegments) : Covers(speechSegments[k], t)})

\* C21: with zero padding, the segments buildSpeechSegments returns are in
\* ascending order, and a tick of [0, durationMs] lies in one of them exactly
\* when no silence interval covers it, whether the silence intervals overlap,
\* are nested or extend past durationMs; with no silence the one segment is
\* [0, durationMs].
C21_SpeechIsComplementOfSilence ==
    (Segmented /\ ZeroPadding) =>
        /\ \A k \in 2..Len(speechSegments) :
              speechSegments[k].startMs >= speechSegments[k - 1].endMs
        /\ \A k \in 1..Len(speechSegments) :
              /\ 0 <= speechSegments[k].startMs
              /\ speechSegments[k].startMs < speechSegments[k].endMs
              /\ speechSegments[k].endMs <= durationMs
        /\ \A t \in Ticks : SpeechCovering(t) = IF SilencesCovering(t) = 0 THEN 1 ELSE 0
        /\ (Len(silenceIntervals) = 0 /\ durationMs > 0)
              => speechSegments = <<Interval(0, durationMs)>>

\* With zero padding, two silences that overlap, the second of them past the
\* end of the medium, left the speech before them.
C21_Witness ==
    /\ Segmented
    /\ ZeroPadding
    /\ Len(silenceIntervals) = 2
    /\ silenceIntervals[2].startMs < silenceIntervals[1].endMs
    /\ silenceIntervals[2].endMs > durationMs
    /\ speechSegments = <<Interval(0, silenceIntervals[1].startMs)>>

\* The segments before padding are the detected speech: [0, durationMs]
\* without the clamped silence intervals.
DetectedSpeech(t) == \E k \in 1..Len(Unpadded) : Covers(Unpadded[k], t)

\* C25: no detected speech is dropped: every tick of [0, durationMs] outside
\* all silence intervals lies in a final segment.
C25_NoSpeechDropped ==
    Segmented =>
        LET unpadded == Unpadded
        IN  /\ \A t \in Ticks : SilencesCovering(t) = 0 => SegmentsCovering(t) >= 1
            /\ \A t \in Ticks :
                  (\E k \in 1..Len(unpadded) : Covers(unpadded[k], t))
                      => SegmentsCovering(t) >= 1

\* Two stretches of speech, one of them shorter than the minimum, are both
\* within the final segments, which do not cover the whole medium.
C25_Witness ==
    /\ Segmented
    /\ request.options.minChunkDurationMs > 0
    /\ Len(Unpadded) = 2
    /\ \E k \in 1..2 : Length(Unpadded[k]) < request.options.minChunkDurationMs
    /\ \A t \in Ticks : DetectedSpeech(t) => SegmentsCovering(t) = 1
    /\ \E t \in Ticks : SegmentsCovering(t) = 0

-----------------------------------------------------------------------------
(* Properties of segment construction on rounded sums, checked under       *)
(* RoundingSpec.                                                           *)

\* `normalized` after the first k speech segments.
NormalizedUpTo(k) ==
    NormalizedSegments(SubSeq(speechSegments, 1, k), request.options, durationMs)

\* Speech segment k was pushed by the minimum-duration pass, not merged into
\* its predecessor nor skipped.
Pushed(k) == Len(NormalizedUpTo(k)) = Len(NormalizedUpTo(k - 1)) + 1

\* What C23 says a pushed segment shorter than the minimum becomes.
ExpectedGrowth(segment, minimum) ==
    LET half == (minimum - Length(segment)) \div 2
    IN  IF segment.startMs - half < 0
        THEN Interval(0, minimum)
        ELSE IF segment.endMs + half > durationMs
        THEN Interval(durationMs - minimum, durationMs)
        ELSE Interval(segment.startMs - half, segment.endMs + half)

\* C23: when durationMs >= minChunkDurationMs, a speech segment shorter than
\* the minimum that the minimum-duration pass does not merge into its
\* predecessor is replaced by a segment that contains it and is exactly the
\* minimum long: grown by half the deficit on each side, or, with one side
\* clamped at 0 or durationMs, by the whole deficit on the other side.
C23_GrowthToMinimum ==
    (Segmented /\ durationMs >= request.options.minChunkDurationMs) =>
        \A k \in 1..Len(speechSegments) :
            (Length(speechSegments[k]) < request.options.minChunkDurationMs /\ Pushed(k))
                => LET grown == NormalizedUpTo(k)[Len(NormalizedUpTo(k))]
                   IN  /\ grown = ExpectedGrowth(speechSegments[k],
                                                 request.options.minChunkDurationMs)
                       /\ Length(grown) = request.options.minChunkDurationMs
                       /\ grown.startMs <= speechSegments[k].startMs
                       /\ speechSegments[k].endMs <= grown.endMs

\* The gap after segment j of the minimum-duration pass: the ticks from its end
\* to the start of the next segment.
GapAfter(j) == Normalized[j].endMs..(Normalized[j + 1].startMs - 1)

\* C26: the maximum-duration pass joins no two segments: every gap between
\* consecutive segments of the minimum-duration pass is uncovered by the final
\* segments.
C26_GapsStayUncovered ==
    Segmented =>
        \A j \in 1..(Len(Normalized) - 1) :
            \A t \in GapAfter(j) : SegmentsCovering(t) = 0

-----------------------------------------------------------------------------
(* Properties of the second loop of enforceDurationConstraints, checked    *)
(* under LoopFairSpec.                                                     *)

\* C27: enforceDurationConstraints comes to an end and returns a finite list
\* of segments, whatever minimum and maximum normalizeOptions has passed on,
\* a maximum of zero or below included.
C27_LoopTerminates == <>(returned # <<>>)

-----------------------------------------------------------------------------
(* Properties of a whole request, checked under Spec.                      *)

Resolved == pc = "resolved"

Rejected == pc = "rejected"

CommandNames == {commands[k].name : k \in 1..Len(commands)}

Contains(sequence, element) == \E k \in 1..Len(sequence) : sequence[k] = element

\* C5: transcription returns one result for each export, in their order and with
\* their ids; the result of a chunk the engine threw on has a non-empty error,
\* an empty text and no words; every chunk is passed to the engine, whatever
\* the engine did on the chunks before it.
C5_TranscriptionResilience ==
    /\ pc = "transcribeChunk" =>
          /\ Len(transcriptions) = transcribeIndex - 1
          /\ engineCalls = [k \in 1..transcribeIndex |-> exports[k].id]
    /\ (Resolved /\ request.transcriptionEnabled /\ Len(exports) > 0) =>
          LET results == response[1].transcriptions
          IN  /\ Len(results) = Len(exports)
              /\ engineCalls = [k \in 1..Len(exports) |-> exports[k].id]
              /\ \A k \in 1..Len(exports) :
                    /\ results[k].chunkId = exports[k].id
                    /\ exports[k].id \in engineThrows =>
                          /\ Len(results[k].error) = 1
                          /\ Len(results[k].error[1]) > 0
                          /\ results[k].text = ""
                          /\ results[k].words = <<>>
                    /\ exports[k].id \notin engineThrows => results[k].error = <<>>

\* The engine threw an Error with an empty message on the first of two chunks
\* and transcribed the second.
C5_Witness ==
    /\ Resolved
    /\ Len(exports) >= 2
    /\ engineThrows = {exports[1].id}
    /\ response[1].transcriptions[1].error = <<"Transcription failed: ">>
    /\ response[1].transcriptions[2].text = "bonjour monde"

\* C6: analyze is never rejected by probeDuration: a strategy whose command
\* exits non-zero or yields no usable value falls through to the next one.
C6_ProbeNeverRejects ==
    rejection \notin {"probeFormat", "probeStream", "probeDecode"}

\* C7: when the rendering of a preview fails, analyze is not rejected by it.
C7_PreviewFailureIsWarning ==
    rejection \notin {"originalPreview", "trimmedPreview"}

\* C8: when the export command of a segment has exited non-zero, analyze is
\* rejected with that error and returns no response, no export command was
\* started for a later segment and the engine was never called.
C8_ExportFailureIsFatal ==
    "exportChunk" \in failed =>
        /\ Rejected
        /\ rejection = "exportChunk"
        /\ response = <<>>
        /\ commands[Len(commands)] = Command("ffmpeg export", exportIndex)
        /\ \A k \in 1..Len(commands) : commands[k].chunk <= exportIndex
        /\ engineCalls = <<>>
        /\ transcriptions = <<>>

\* The export of the first of several segments failed in a request that asked
\* for transcription.
C8_Witness ==
    /\ "exportChunk" \in failed
    /\ exportIndex = 1
    /\ Len(constrainedSegments) >= 2
    /\ request.transcriptionEnabled

\* C9: when inputPath is missing or no regular file, analyze never gets past
\* ensureSourceExists: no process is started and nothing is created.
C9_MissingSourceRejectsFirst ==
    fileKind # "file" =>
        /\ pc \in {"ensureSourceExists", "rejected"}
        /\ Rejected => rejection = "ensureSourceExists"
        /\ commands = <<>>
        /\ created = {}
        /\ response = <<>>

\* analyze has rejected a path that is a directory.
C9_Witness ==
    /\ Rejected
    /\ fileKind = "directory"
    /\ rejection = "ensureSourceExists"

\* detectSilences has returned and the segment stage has run.
SegmentStageDone ==
    /\ Contains(commands, Command("ffmpeg silencedetect", 0))
    /\ pc # "detectSilences"
    /\ rejection # "detectSilences"

\* C10: with no segment and neither the output directory nor the original
\* preview failing, analyze is not rejected and resolves
\* with empty chunks and exports, a null chunk directory and the no-speech
\* warning, having run no trimmed-preview or export command; a request for
\* transcription also gets the no-exports warning, no transcription, and no
\* engine call.
C10_NoSegments ==
    (SegmentStageDone /\ Len(constrainedSegments) = 0) =>
        /\ failed \cap {"resolveOutputDir", "originalPreview"} = {} => ~Rejected
        /\ ~Rejected => Contains(warnings, NoSpeechWarning)
        /\ pc \in {"resolveOutputDir", "originalPreview", "resolved", "rejected"}
        /\ CommandNames \cap {"ffmpeg trimmed preview", "ffmpeg export"} = {}
        /\ engineCalls = <<>>
        /\ Resolved =>
              /\ response[1].chunks = <<>>
              /\ response[1].chunkExports = <<>>
              /\ response[1].chunkExportsDirPath = "null"
              /\ response[1].transcriptions = <<>>
              /\ Contains(response[1].warnings, NoSpeechWarning)
              /\ request.transcriptionEnabled
                    <=> Contains(response[1].warnings, NoExportsWarning)

\* A request for transcription of a medium that is one long silence has
\* resolved.
C10_Witness ==
    /\ Resolved
    /\ request.transcriptionEnabled
    /\ durationMs > 0
    /\ Len(silenceIntervals) = 1
    /\ Len(constrainedSegments) = 0

\* The adapter transcribeChunkExports is to call for a request that names `engine`.
\* C22: when the duration comes from the full decode and its output holds
\* several time= reports, probeDuration returns the time of the last report.
C22_LastProgressReport ==
    Len(decodeReports) > 1 => durationMs = decodeReports[Len(decodeReports)]

AdapterOf(engine) ==
    IF engine = "vosk" THEN "transcribeWithVosk" ELSE "transcribeWithWhisper"

\* C11: the adapter that transcribes the chunks of a request is the one of the
\* engine the request names (transcribeWithVosk for vosk, transcribeWithWhisper
\* for whisper), and the resolved transcription options of the response name
\* the engine that was requested.
C11_EngineSelection ==
    /\ adapter # "none" => adapter = AdapterOf(request.engine)
    /\ Resolved => response[1].transcription.engine = request.engine

\* The processes and engine calls started and not ended.
InFlight == Len(commands) + Len(engineCalls) - ended

\* The place of a command in the order of the stages.
StageOf(command) ==
    CASE command.name = "ffprobe format" -> 1
      [] command.name = "ffprobe stream" -> 2
      [] command.name = "ffmpeg decode" -> 3
      [] command.name = "ffmpeg silencedetect" -> 4
      [] command.name = "ffmpeg original preview" -> 5
      [] command.name = "ffmpeg trimmed preview" -> 6
      [] command.name = "ffmpeg export" -> 7

\* C13: in one analyze call at most one process or engine call is in flight,
\* and they start in the order of the stages, each after the one before it has
\* ended: the probes, silence detection, the original preview, the trimmed
\* preview, the exports in ascending chunk order, and, once every export has
\* ended, the engine calls in ascending chunk order.
C13_OneAtATimeInOrder ==
    /\ InFlight \in {0, 1}
    /\ InFlight = 1 <=> pc \in {"probeFormat", "probeStream", "probeDecode",
                                "detectSilences", "originalPreview", "trimmedPreview",
                                "exportChunk", "transcribeChunk"}
    /\ \A k \in 1..(Len(commands) - 1) :
          \/ StageOf(commands[k]) < StageOf(commands[k + 1])
          \/ /\ commands[k].name = "ffmpeg export"
             /\ commands[k + 1].name = "ffmpeg export"
             /\ commands[k].chunk < commands[k + 1].chunk
    /\ \A k \in 1..(Len(engineCalls) - 1) : engineCalls[k] < engineCalls[k + 1]
    /\ engineCalls # <<>> =>
          /\ ended >= Len(commands)
          /\ Len(exports) = Cardinality({k \in 1..Len(commands) :
                                            commands[k].name = "ffmpeg export"})
          /\ Contains(commands, Command("ffmpeg trimmed preview", 0))
    /\ Len(commands) > 0 => commands[1] = Command("ffprobe format", 0)

\* A request has resolved after all three probes, both previews, two exports
\* and two engine calls.
C13_Witness ==
    /\ Resolved
    /\ Contains(commands, Command("ffmpeg decode", 0))
    /\ Contains(commands, Command("ffmpeg export", 2))
    /\ Len(engineCalls) = 2
    /\ InFlight = 0

\* The detector's output ends with a silence_start that no silence_end follows.
EndsWithSilenceStart(lines) ==
    Len(lines) > 0 /\ lines[Len(lines)].kind = "silence_start"

\* C16: when the detector's output ends with a silence_start at S without a
\* silence_end, detectSilences returns the interval [S, S] and the range from S
\* to durationMs counts as silence: no speech segment of buildSpeechSegments,
\* before padding, holds an instant later than S.
C16_TrailingSilenceStart ==
    EndsWithSilenceStart(stderrLines) =>
        LET S == stderrLines[Len(stderrLines)].at
            segments == SegmentsBeforePadding(durationMs, silenceIntervals)
        IN  /\ Contains(silenceIntervals, Interval(S, S))
            /\ \A k \in 1..Len(segments) : segments[k].endMs <= S

\* The fields of a chunk and of a chunk export that describe the segment.
SegmentOf(entry) ==
    [id |-> entry.id, startMs |-> entry.startMs, endMs |-> entry.endMs,
     durationMs |-> entry.durationMs]

\* C28: in every response there is one chunk export for each chunk, with the
\* same id, startMs, endMs and durationMs; chunkExportsDirPath is null exactly
\* when there is no export; and there is no transcription, or one for each
\* export, with its chunkId, in the same order.
C28_ExportsMatchChunks ==
    Resolved =>
        LET r == response[1]
        IN  /\ Len(r.chunkExports) = Len(r.chunks)
            /\ \A i \in 1..Len(r.chunks) :
                  i <= Len(r.chunkExports)
                      => SegmentOf(r.chunkExports[i]) = SegmentOf(r.chunks[i])
            /\ r.chunkExportsDirPath = "null" <=> Len(r.chunkExports) = 0
            /\ \/ Len(r.transcriptions) = 0
               \/ /\ Len(r.transcriptions) = Len(r.chunkExports)
                  /\ \A i \in 1..Len(r.transcriptions) :
                        r.transcriptions[i].chunkId = r.chunkExports[i].id

-----------------------------------------------------------------------------
(* Properties of requests in flight together, checked under ConcurrentSpec. *)

\* Request r is in its first call of transcribe, past ensureWhisperInstalled.
FirstCallInstalled(r) ==
    /\ calls[r].index = 1
    /\ calls[r].pc \in {"installed", "downloading", "modelReady", "transcribing"}

\* C12: requests in flight together are independent: no request reads or
\* writes an in-memory variable after another request wrote it, and each
\* request does what it does when run alone on the service: its first call of
\* transcribe checks for the whisper executable.
C12_IndependentRequests ==
    /\ foreignAccess = {}
    /\ \A r \in Requests :
          FirstCallInstalled(r) => Contains(calls[r].steps, "existsSync executable")

-----------------------------------------------------------------------------
(* Properties of normalizeOptions, checked under OptionsSpec.              *)

\* The default the documentation gives for an option.
DocumentedDefault(name) ==
    CASE name = "silenceThresholdDb" -> -40
      [] name = "minSilenceDurationMs" -> 1000
      [] name = "paddingBeforeMs" -> 200
      [] name = "paddingAfterMs" -> 300
      [] name = "minChunkDurationMs" -> 500
      [] name = "maxChunkDurationMs" -> 600000

\* The request supplies the option.
Supplies(options, name) == options # Undefined /\ options[1][name] # Undefined

\* C15: for every subset of the six options a request supplies, each resolved
\* option is the supplied value (0 included) when there is one and its default
\* otherwise, whatever the other options are, and DEFAULT_OPTIONS is as it was
\* before any request.
C15_IndependentDefaults ==
    /\ defaultOptions = [name \in OptionNames |-> DocumentedDefault(name)]
    /\ returned # <<>> =>
          \A name \in OptionNames :
              returned[name] = IF Supplies(argument, name)
                               THEN argument[1][name][1]
                               ELSE DocumentedDefault(name)

\* A request has supplied 0 for one option, another number for a second and
\* nothing for the others.
C15_Witness ==
    /\ returned # <<>>
    /\ argument # Undefined
    /\ argument[1]["paddingBeforeMs"] = <<0>>
    /\ returned["paddingBeforeMs"] = 0
    /\ argument[1]["minChunkDurationMs"] = <<250>>
    /\ argument[1]["maxChunkDurationMs"] = Undefined
    /\ returned["maxChunkDurationMs"] = 600000

-----------------------------------------------------------------------------
(* Properties of the timestamp functions, checked under TimestampSpec.     *)

\* toBeCloseTo(original, 2): the difference is below 0.005 s.
CloseTo(parsed, original) == parsed - original < 5 /\ original - parsed < 5

\* C17 as stated: for every time x >= 0 with millisecond precision, whatever
\* its number of hours, parseTimestampToSeconds(formatTimestamp(x)) is x to
\* within the tolerance of the test.
C17_RoundTrip ==
    returned # <<>> => CloseTo(returned[1].parsed, argument)

\* C17 as amended: for every time x >= 0 with millisecond precision below 100
\* hours, parseTimestampToSeconds(formatTimestamp(x)) is x; from 100 hours on
\* the hours have three digits and the parser returns them as seconds.
C17_RoundTripBelow100Hours ==
    returned # <<>> =>
        IF argument < 100 * 3600 * 1000
        THEN returned[1].parsed = argument
        ELSE returned[1].parsed = (argument \div 3600000) * 1000

\* The last millisecond before 100 hours has made the round trip.
C17_Witness ==
    /\ returned # <<>>
    /\ argument = 99 * 3600000 + 59 * 60000 + 59999
    /\ returned[1].formatted = <<"9", "9", ":", "5", "9", ":", "5", "9", ".", "9", "9", "9">>
    /\ returned[1].parsed = argument

-----------------------------------------------------------------------------
(* Properties of the parsing of the detector's output, checked under       *)
(* DetectorSpec.                                                           *)

\* The lines that are silence_end events, and whether a start is pending at
\* line i: the line before it is a silence_start.
EndEvents(lines) == {i \in 1..Len(lines) : lines[i].kind = "silence_end"}

Pending(lines, i) == i > 1 /\ lines[i - 1].kind = "silence_start"

\* What C24 says the silence_end of line i emits.
EmittedFor(lines, i) ==
    LET start == IF Pending(lines, i)
                 THEN lines[i - 1].at
                 ELSE Max2(0, lines[i].at - lines[i].duration)
    IN  Interval(start, Max2(start, lines[i].at))

Occurrences(sequence, element) ==
    Cardinality({k \in 1..Len(sequence) : sequence[k] = element})

\* C24: for any sequence of silence_start and silence_end events,
\* detectSilences emits exactly one interval for each silence_end, from the
\* pending start if there is one and else from end minus duration, floored at
\* 0; beyond these it returns only the interval of a start left pending at
\* the end; the list is sorted ascending by startMs, every interval has
\* 0 <= startMs <= endMs, and with no event the list is empty.
C24_OneIntervalForEachEnd ==
    returned # <<>> =>
        LET lines == argument
            intervals == returned[1]
            trailing == Pending(lines, Len(lines) + 1)
            emitted == {EmittedFor(lines, i) : i \in EndEvents(lines)}
        IN  /\ Len(intervals) = Cardinality(EndEvents(lines)) + IF trailing THEN 1 ELSE 0
            /\ \A x \in emitted :
                  Occurrences(intervals, x)
                      = Cardinality({i \in EndEvents(lines) : EmittedFor(lines, i) = x})
                          + IF trailing /\ x = Interval(lines[Len(lines)].at, lines[Len(lines)].at)
                            THEN 1 ELSE 0
            /\ IsSortedByStart(intervals)
            /\ \A k \in 1..Len(intervals) :
                  0 <= intervals[k].startMs /\ intervals[k].startMs <= intervals[k].endMs
            /\ Len(lines) = 0 => intervals = <<>>

\* A silence_end after its silence_start, then a silence_end without a start
\* whose duration puts its interval first in the list returned.
C24_Witness ==
    /\ returned # <<>>
    /\ Len(argument) = 3
    /\ argument[1].kind = "silence_start"
    /\ argument[2].kind = "silence_end"
    /\ argument[3].kind = "silence_end"
    /\ Len(returned[1]) = 2
    /\ returned[1][1] = EmittedFor(argument, 3)
    /\ returned[1][2] = EmittedFor(argument, 2)
    /\ returned[1][1].startMs < returned[1][2].startMs

-----------------------------------------------------------------------------
(* Properties of the cleaning of the text, checked under TextSpec.         *)

\* No whitespace at either end, and no two whitespace characters in a row.
Tidy(text) ==
    /\ Len(text) > 0 => ~IsSpace(text[1]) /\ ~IsSpace(text[Len(text)])
    /\ \A k \in 1..(Len(text) - 1) : ~(IsSpace(text[k]) /\ IsSpace(text[k + 1]))

\* Every mark that is not the last character is followed by exactly one space.
OneSpaceAfterMarks(text) ==
    \A k \in 1..(Len(text) - 1) :
        IsMark(text[k]) => text[k + 1] = " " /\ WhitespaceRun(text, k + 1) = 1

\* C18 as stated: the cleaned text has no whitespace at its ends, no run of
\* two or more whitespace characters, no whitespace right before a mark
\* . , ! ? ; : and exactly one space after every mark that is not its last
\* character; cleaning it again returns it unchanged.
C18_CleanedText ==
    /\ Len(returned) >= 1 =>
          /\ Tidy(returned[1])
          /\ \A k \in 2..Len(returned[1]) :
                IsMark(returned[1][k]) => ~IsSpace(returned[1][k - 1])
          /\ OneSpaceAfterMarks(returned[1])
    /\ Len(returned) = 2 => returned[2] = returned[1]

\* C18 as amended: as stated, but whitespace stands right before a mark where,
\* and only where, that mark follows another mark: it is then the one space
\* after that other mark.
C18_CleanedTextBetweenMarks ==
    /\ Len(returned) >= 1 =>
          /\ Tidy(returned[1])
          /\ \A k \in 2..Len(returned[1]) :
                (IsMark(returned[1][k]) /\ IsSpace(returned[1][k - 1]))
                    => /\ k > 2
                       /\ IsMark(returned[1][k - 2])
                       /\ returned[1][k - 1] = " "
          /\ OneSpaceAfterMarks(returned[1])
    /\ Len(returned) = 2 => returned[2] = returned[1]

\* A text with whitespace before two marks in a row has been cleaned twice.
C18_Witness ==
    /\ argument = <<"a", "\n", " ", ".", "?">>
    /\ returned = <<<<"a", ".", " ", "?">>, <<"a", ".", " ", "?">>>>

-----------------------------------------------------------------------------
(* Properties of the capture service, checked under CaptureSpec.           *)

\* The capturer processes that run.
Capturers == {p \in 1..Len(processes) : IsAlive(p)}

\* C29: the service runs at most one capturer process at a time, whatever the
\* interleaving of the startCapture and stopCapture calls: no process is
\* spawned while the process the service refers to is alive.
C29_OneCapturerAtATime ==
    /\ Cardinality(Capturers) <= 1
    /\ \A p \in 1..Len(processes) : processes[p].spawnedOver = 0

\* C30: isCaptureActive() is true only while the spawned process is alive (or
\* the 'error' event of a failed spawn is still to be delivered).
C30_ActiveOnlyWhileAlive ==
    isCapturing => process # 0 /\ (IsAlive(process) \/ ErrorPending(process))

====
